---- MODULE Spec2Model ----
(***************************************************************************)
(* State-machine model of snapsafe, an incremental snapshot engine for     *)
(* directory trees (src/src/subcommands/*.rs, src/src/info.rs,             *)
(* src/src/manifest.rs).                                                   *)
(*                                                                         *)
(* Strings that the code inspects character by character (version strings *)
(* and snapshot ids) are sequences of one-character strings.  File names   *)
(* are only ever compared as a whole, so a path is a sequence of names.    *)
(* Option<T> is a sequence of length 0 (None) or 1 (Some).                 *)
(***************************************************************************)
EXTENDS Integers, Sequences, FiniteSets, TLC

\* ------------------------------------------------------------------------
\* Bounds of the model
\* ------------------------------------------------------------------------
MaxSnapshots == 2

MaxEdits == 1

\* the diff specification: file sizes 1..MaxDiffSize, modified strings 0..MaxDiffTime
MaxDiffSize == 2

MaxDiffTime == 1

\* the prune specification: heads of up to MaxPruneHead entries with
\* timestamps 0..MaxPruneTime (seconds)
MaxPruneHead == 3

MaxPruneTime == 2

\* the verify specification: recorded and stored file sizes 1..MaxVerifySize
MaxVerifySize == 2

\* the resolver specification: heads of up to MaxResolveHead entries
MaxResolveHead == 3

\* the version specification: heads of up to MaxVersionHead entries
MaxVersionHead == 3

\* the target specification: up to MaxTagEdits tag and metadata edits
MaxTagEdits == 2

\* ------------------------------------------------------------------------
\* Option<T>
\* ------------------------------------------------------------------------
None == <<>>

Some(x) == <<x>>

IsSome(o) == Len(o) = 1

Unwrap(o) == o[1]

\* ------------------------------------------------------------------------
\* Program constants
\* ------------------------------------------------------------------------
REPO_FOLDER == ".snapsafe"

HEAD_MANIFEST_FILE == "head_manifest.json"

MANIFEST_FILE == "manifest.json"

IGNORE_FILE == ".snapsafeignore"

DEFAULT_IGNORE_ITEMS == {".git", ".gitignore", "target", ".DS_Store", ".snapsafeignore"}

\* ------------------------------------------------------------------------
\* Character-level string functions used by get_next_version and
\* resolve_snapshot_id
\* ------------------------------------------------------------------------
Digits == {"0", "1", "2", "3", "4", "5", "6", "7", "8", "9"}

DigitVal(c) ==
    CASE c = "0" -> 0 [] c = "1" -> 1 [] c = "2" -> 2 [] c = "3" -> 3
      [] c = "4" -> 4 [] c = "5" -> 5 [] c = "6" -> 6 [] c = "7" -> 7
      [] c = "8" -> 8 [] c = "9" -> 9

DigitChar(d) ==
    CASE d = 0 -> "0" [] d = 1 -> "1" [] d = 2 -> "2" [] d = 3 -> "3"
      [] d = 4 -> "4" [] d = 5 -> "5" [] d = 6 -> "6" [] d = 7 -> "7"
      [] d = 8 -> "8" [] d = 9 -> "9"

\* str::starts_with(prefix)
StartsWith(s, p) == Len(p) <= Len(s) /\ SubSeq(s, 1, Len(p)) = p

\* str::matches(c).count()
CountChar(s, c) == Cardinality({i \in 1..Len(s) : s[i] = c})

\* str::trim_start_matches(c): drops every leading c
RECURSIVE TrimStartMatches(_, _)
TrimStartMatches(s, c) ==
    IF Len(s) > 0 /\ s[1] = c THEN TrimStartMatches(Tail(s), c) ELSE s

\* str::split(c).collect(): always at least one (possibly empty) part
RECURSIVE Split(_, _)
Split(s, c) ==
    IF \A i \in 1..Len(s) : s[i] # c
    THEN <<s>>
    ELSE LET k == CHOOSE i \in 1..Len(s) :
                      s[i] = c /\ \A j \in 1..(i - 1) : s[j] # c
         IN <<SubSeq(s, 1, k - 1)>> \o Split(SubSeq(s, k + 1, Len(s)), c)

\* A u32 is held as its decimal digits without leading zeros, which is also
\* what Display prints; 32-bit limits are compared digit by digit.
U32Max == <<"4", "2", "9", "4", "9", "6", "7", "2", "9", "5">>

RECURSIVE StripZeros(_)
StripZeros(s) == IF Len(s) > 1 /\ s[1] = "0" THEN StripZeros(Tail(s)) ELSE s

RECURSIVE DigitsLess(_, _)
DigitsLess(a, b) ==
    IF Len(a) = 0 THEN FALSE
    ELSE IF DigitVal(a[1]) # DigitVal(b[1]) THEN DigitVal(a[1]) < DigitVal(b[1])
    ELSE DigitsLess(Tail(a), Tail(b))

\* a < b for two digit strings without leading zeros
DecimalLess(a, b) == Len(a) < Len(b) \/ (Len(a) = Len(b) /\ DigitsLess(a, b))

\* the digits of n + 1
RECURSIVE Increment(_)
Increment(s) ==
    IF Len(s) = 0 THEN <<"1">>
    ELSE IF s[Len(s)] = "9" THEN Increment(SubSeq(s, 1, Len(s) - 1)) \o <<"0">>
    ELSE SubSeq(s, 1, Len(s) - 1) \o <<DigitChar(DigitVal(s[Len(s)]) + 1)>>

\* str::parse::<u32>(): an optional leading '+', then one or more digits
\* whose value fits 32 bits; anything else is Err (None here)
ParseU32(s) ==
    LET body == IF Len(s) > 0 /\ s[1] = "+" THEN Tail(s) ELSE s
    IN IF Len(body) = 0 \/ \E i \in 1..Len(body) : body[i] \notin Digits
       THEN None
       ELSE IF DecimalLess(U32Max, StripZeros(body)) THEN None
            ELSE Some(StripZeros(body))

\* Display of a (small) unsigned integer
RECURSIVE FormatNat(_)
FormatNat(n) ==
    IF n < 10 THEN <<DigitChar(n)>>
    ELSE FormatNat(n \div 10) \o <<DigitChar(n % 10)>>

\* format!("v{}.{}.{}.{}", a, b, c, d)
FormatVersion(a, b, c, d) == <<"v">> \o a \o <<".">> \o b \o <<".">> \o c \o <<".">> \o d

\* `build + 1` on u32, as the optimised build computes it (wrapping)
BuildPlusOne(build) == IF build = U32Max THEN <<"0">> ELSE Increment(build)

V1000 == <<"v", "1", ".", "0", ".", "0", ".", "0">>

\* info.rs get_next_version
get_next_version(hd, version) ==
    IF IsSome(version)
    THEN LET user_version == Unwrap(version) IN
         IF StartsWith(user_version, <<"v">>) /\ CountChar(user_version, ".") = 3
         THEN IF \E i \in 1..Len(hd) : hd[i].version = user_version
              THEN LET parts == Split(TrimStartMatches(user_version, "v"), ".")
                       parsed == ParseU32(parts[4])
                       build == IF IsSome(parsed) THEN Unwrap(parsed) ELSE <<"0">>
                   IN FormatVersion(parts[1], parts[2], parts[3],
                                    BuildPlusOne(build))
              ELSE user_version
         ELSE IF \A i \in 1..Len(user_version) : user_version[i] \in Digits
         THEN FormatVersion(user_version, <<"0">>, <<"0">>, <<"0">>)
         ELSE LET parts == Split(TrimStartMatches(user_version, "v"), ".") IN
              CASE Len(parts) = 1 -> FormatVersion(parts[1], <<"0">>, <<"0">>, <<"0">>)
                [] Len(parts) = 2 -> FormatVersion(parts[1], parts[2], <<"0">>, <<"0">>)
                [] Len(parts) = 3 -> FormatVersion(parts[1], parts[2], parts[3], <<"0">>)
                [] Len(parts) = 4 -> FormatVersion(parts[1], parts[2], parts[3], parts[4])
                [] OTHER -> V1000
    ELSE IF Len(hd) = 0
         THEN V1000
         ELSE LET parts == Split(TrimStartMatches(hd[Len(hd)].version, "v"), ".") IN
              IF Len(parts) # 4
              THEN V1000
              ELSE LET parsed == ParseU32(parts[4])
                       build == IF IsSome(parsed) THEN Unwrap(parsed) ELSE <<"0">>
                   IN FormatVersion(parts[1], parts[2], parts[3],
                                    BuildPlusOne(build))

\* ------------------------------------------------------------------------
\* Files, paths and time
\* ------------------------------------------------------------------------
\* clock ticks per second: timestamps are formatted with "%Y-%m-%d %H:%M:%S",
\* which drops everything below the second
TicksPerSecond == 2

FormatTime(t) == t \div TicksPerSecond

PathA == <<"a.txt">>

PathManifest == <<MANIFEST_FILE>>

PathSubB == <<"sub", "b.txt">>

PathIgnoredDir == <<"target", "out.bin">>

PathIgnoredLeaf == <<"sub", "target">>

PathNestedRepo == <<"sub", REPO_FOLDER, "x">>

\* files the user edits between commands
MutablePaths == {PathA}

\* files that sit in the working tree from the start
StaticPaths == {PathSubB, PathIgnoredDir, PathIgnoredLeaf, PathNestedRepo}

\* a file that is in the working tree from the start
StaticFile == [size |-> 3, data |-> "s", recs |-> {}, modified |-> 0]

\* what the user writes into a file: a size in bytes and the bytes themselves
UserContents == {[size |-> 5, data |-> "x", recs |-> {}],
                 [size |-> 7, data |-> "y", recs |-> {}]}

\* values of the snapshot command's --message and --version options
SnapshotInputs == {[message |-> None, version |-> None],
                   [message |-> Some("msg"), version |-> Some(<<"2">>)]}

NameLen(n) ==
    CASE n = "a.txt" -> 5 [] n = "b.txt" -> 5 [] n = "sub" -> 3
      [] n = "target" -> 6 [] n = "out.bin" -> 7 [] n = "x" -> 1
      [] n = MANIFEST_FILE -> 13 [] n = REPO_FOLDER -> 9
      [] n = HEAD_MANIFEST_FILE -> 18

RECURSIVE PathStrLen(_)
PathStrLen(p) ==
    IF Len(p) = 1 THEN NameLen(p[1]) ELSE NameLen(p[1]) + 1 + PathStrLen(Tail(p))

RECURSIVE SumOver(_, _)
SumOver(S, f) ==
    IF S = {} THEN 0
    ELSE LET x == CHOOSE y \in S : TRUE IN f[x] + SumOver(S \ {x}, f)

\* byte length of serde_json::to_string_pretty(&metadata_vec)
ManifestJsonLen(recs) ==
    IF recs = {} THEN 2
    ELSE 4 + 2 * (Cardinality(recs) - 1)
           + SumOver(recs, [r \in recs |->
                 89 + PathStrLen(r.relative_path) + Len(FormatNat(r.file_size))])

\* the bytes of a manifest file
ManifestJson(recs) == [size |-> ManifestJsonLen(recs), data |-> "json", recs |-> recs]

\* serde_json::from_str::<Vec<FileMetadata>>: None when the bytes are not a manifest
ParseManifest(content) == IF content.data = "json" THEN Some(content.recs) ELSE None

\* ------------------------------------------------------------------------
\* State
\* ------------------------------------------------------------------------
VARIABLES
    repo,      \* TRUE once .snapsafe and .snapsafe/snapshots exist
    ignore,    \* the names listed in .snapsafeignore
    wt,        \* working tree: path -> [size, data, recs, modified]
    head,      \* head_manifest.json: sequence of SnapshotIndex
    snaps,     \* .snapsafe/snapshots: version -> (path -> inode)
    store,     \* inode -> [size, data, recs]
    now,       \* wall clock, in ticks
    created,   \* number of snapshot directories created so far
    edits,     \* number of user edits and of tag and metadata edits so far
    pc,        \* "idle", or the prompt a command is waiting at
    pending,   \* what the waiting command has computed so far
    last       \* the last command: name, arguments, outcome

vars == <<repo, ignore, wt, head, snaps, store, now, created, edits, pc, pending, last>>

NoCommand == [op |-> "none", ok |-> TRUE]

\* the working trees a run starts from: one holds a file named like the
\* per-snapshot manifest and keeps the ignore list that init writes, the other
\* has the user's own ignore list
InitialTrees == {[files |-> {PathManifest}, ignore |-> DEFAULT_IGNORE_ITEMS],
                 [files |-> {PathA}, ignore |-> {IGNORE_FILE, "sub"}]}

Init ==
    /\ repo = FALSE
    /\ \E t \in InitialTrees :
          /\ ignore = t.ignore
          /\ wt = [p \in StaticPaths \cup t.files |-> StaticFile]
    /\ head = <<>>
    /\ snaps = <<>>
    /\ store = <<>>
    /\ now = 0
    /\ created = 0
    /\ edits = 0
    /\ pc = "idle"
    /\ pending = NoCommand
    /\ last = NoCommand

\* ------------------------------------------------------------------------
\* The user.  The clock advances by one tick with every edit (of a file, of a
\* tag, of a metadata key) and with every snapshot directory created, so two
\* of them can fall into one second.
\* ------------------------------------------------------------------------
WriteFile(p, c) ==
    /\ pc = "idle"
    /\ edits < MaxEdits
    /\ wt' = [q \in DOMAIN wt \cup {p} |->
                 IF q = p THEN [size |-> c.size, data |-> c.data, recs |-> c.recs,
                                modified |-> now]
                 ELSE wt[q]]
    /\ edits' = edits + 1
    /\ now' = now + 1
    /\ UNCHANGED <<repo, ignore, head, snaps, store, created, pc, pending, last>>

RemoveFile(p) ==
    /\ pc = "idle"
    /\ edits < MaxEdits
    /\ p \in DOMAIN wt
    /\ wt' = [q \in DOMAIN wt \ {p} |-> wt[q]]
    /\ edits' = edits + 1
    /\ now' = now + 1
    /\ UNCHANGED <<repo, ignore, head, snaps, store, created, pc, pending, last>>

\* subcommands/init.rs init_repository
InitRepository ==
    /\ pc = "idle"
    /\ repo' = TRUE
    /\ last' = [op |-> "init", ok |-> TRUE]
    /\ UNCHANGED <<ignore, wt, head, snaps, store, now, created, edits, pc, pending>>

\* ------------------------------------------------------------------------
\* Snapshot Builder (subcommands/snapshot.rs)
\* ------------------------------------------------------------------------
\* the names read_dir yields for the directory `prefix` of `tree`
DirEntries(tree, prefix) ==
    {q[Len(prefix) + 1] : q \in {r \in DOMAIN tree :
         Len(r) > Len(prefix) /\ SubSeq(r, 1, Len(prefix)) = prefix}}

\* snapshot.rs lines 121-126, with the repository folder skipped only
\* and the ignore list left out
SkippedRepoFolderOnly(file_name_str, skip_dir, ignore_list) ==
    file_name_str = skip_dir

\* snapshot.rs lines 121-126: the entries the walk passes over
Skipped(file_name_str, skip_dir, ignore_list) ==
    file_name_str = skip_dir \/ file_name_str \in ignore_list

\* copy_or_link_recursive_with_metadata, the traversal: the files it reaches
\* below `prefix`, skipping at every level the entries named skip_dir or
\* listed in ignore_list
RECURSIVE WalkFiles(_, _, _, _)
WalkFiles(tree, prefix, skip_dir, ignore_list) ==
    LET kept == {n \in DirEntries(tree, prefix) : ~Skipped(n, skip_dir, ignore_list)}
    IN UNION {IF (prefix \o <<n>>) \in DOMAIN tree
              THEN {prefix \o <<n>>}
              ELSE WalkFiles(tree, prefix \o <<n>>, skip_dir, ignore_list) : n \in kept}

\* FileMetadata of a working-tree file
FileMeta(tree, p) ==
    [relative_path |-> p, file_size |-> tree[p].size,
     modified |-> FormatTime(tree[p].modified)]

\* the HashMap built from a manifest's Vec<FileMetadata>
ManifestMap(recs) ==
    [p \in {r.relative_path : r \in recs} |-> CHOOSE r \in recs : r.relative_path = p]

\* manifest.rs load_prev_snapshot_manifest (called as load_last_snapshot_manifest):
\* the folder and manifest of the head's last entry
LoadLastManifest(hd, sn, st) ==
    IF Len(hd) = 0 THEN [err |-> FALSE, some |-> FALSE]
    ELSE LET v == hd[Len(hd)].version IN
         IF v \in DOMAIN sn /\ PathManifest \in DOMAIN sn[v]
         THEN LET parsed == ParseManifest(st[sn[v][PathManifest]]) IN
              IF IsSome(parsed)
              THEN [err |-> FALSE, some |-> TRUE, dir |-> v, map |-> ManifestMap(Unwrap(parsed))]
              ELSE [err |-> TRUE, some |-> FALSE]
         ELSE [err |-> FALSE, some |-> FALSE]

\* the base directory as read_dir sees it: the working tree plus, once the
\* repository exists, the storage folder with the head manifest in it
RepoFiles == IF repo THEN {<<REPO_FOLDER, HEAD_MANIFEST_FILE>>} ELSE {}

BaseDir == [p \in DOMAIN wt \cup RepoFiles |-> IF p \in DOMAIN wt THEN wt[p] ELSE StaticFile]

\* the files the walk from the base directory reaches
WalkedFiles == WalkFiles(BaseDir, <<>>, REPO_FOLDER, ignore)

\* snapshot.rs line 154 with the size test inverted
UnchangedSizeInverted(prev_meta, file_meta) ==
    prev_meta.file_size # file_meta.file_size /\ prev_meta.modified = file_meta.modified

\* snapshot.rs line 154: the test that makes the walk try a hard link
Unchanged(prev_meta, file_meta) ==
    prev_meta.file_size = file_meta.file_size /\ prev_meta.modified = file_meta.modified

\* the files for which the walk attempts fs::hard_link: the previous manifest
\* records the same path with the same size and modified string
LinkCandidatesOf(head_manifest) ==
    LET prev == LoadLastManifest(head_manifest, snaps, store) IN
    IF prev.err \/ ~prev.some THEN {}
    ELSE {p \in WalkedFiles :
             p \in DOMAIN prev.map /\ Unchanged(prev.map[p], FileMeta(BaseDir, p))}

LinkCandidates == LinkCandidatesOf(head)

\* fs::create_dir_all in place of fs::create_dir: an existing directory is accepted
CreateDirAllFails(sn, version) == FALSE

\* fs::create_dir(snapshot_dir) fails when the directory is there already
CreateDirFails(sn, version) == version \in DOMAIN sn

\* snapshot.rs lines 65-70 with the message left out of the entry
SnapshotIndexNoMessage(version, timestamp, message) ==
    [version |-> version, timestamp |-> timestamp, message |-> None, metadata |-> None]

\* snapshot.rs lines 65-70: the new head-index entry
SnapshotIndex(version, timestamp, message) ==
    [version |-> version, timestamp |-> timestamp, message |-> message, metadata |-> None]

\* the bytes of a working-tree file
Bytes(f) == [size |-> f.size, data |-> f.data, recs |-> f.recs]

Untouched == [head |-> head, snaps |-> snaps, store |-> store, created |-> created]

\* create_snapshot(message, tag): the outcome and the repository it leaves.
\* `link_fails`: the file system refuses the fs::hard_link calls of this run.
\* `walk_fails`: the first fs::read_dir of the walk (line 114) returns an
\* error, so the run ends with the new directory created and still empty.
create_snapshot_from(head_manifest, message, tag, link_fails, walk_fails) ==
    LET Unsaved == [head |-> head_manifest, snaps |-> snaps, store |-> store,
                    created |-> created] IN
    LET new_version == get_next_version(head_manifest, tag) IN
    IF ~repo
    THEN [ok |-> FALSE, version |-> new_version] @@ Unsaved
    ELSE IF CreateDirFails(snaps, new_version)
    THEN [ok |-> FALSE, version |-> new_version] @@ Unsaved
    ELSE
    LET prev == LoadLastManifest(head_manifest, snaps, store)
        gen == created + 1
    IN
    IF prev.err
    THEN [ok |-> FALSE, version |-> new_version, head |-> head_manifest,
          snaps |-> (new_version :> <<>>) @@ snaps, store |-> store, created |-> gen]
    ELSE IF walk_fails
    THEN [ok |-> FALSE, version |-> new_version, head |-> head_manifest,
          snaps |-> (new_version :> <<>>) @@ snaps, store |-> store, created |-> gen]
    ELSE
    LET files == WalkedFiles
        linked == {p \in LinkCandidatesOf(head_manifest) : p \in DOMAIN snaps[prev.dir] /\ ~link_fails}
        copied == files \ linked
        Fresh(p) == [gen |-> gen, path |-> p]
        dir0 == [p \in files |-> IF p \in linked THEN snaps[prev.dir][p] ELSE Fresh(p)]
        store0 == [i \in {Fresh(p) : p \in copied} |-> Bytes(BaseDir[i.path])] @@ store
        metadata_vec == {FileMeta(BaseDir, p) : p \in files}
        \* fs::write(snapshot_dir/manifest.json): writes into the file that is
        \* at that path if the walk put one there, else creates it
        manifest_ino == IF PathManifest \in files THEN dir0[PathManifest]
                        ELSE Fresh(PathManifest)
        dir1 == (PathManifest :> manifest_ino) @@ dir0
        store1 == (manifest_ino :> ManifestJson(metadata_vec)) @@ store0
        new_snapshot_index == SnapshotIndex(new_version, FormatTime(now), message)
    IN [ok |-> TRUE, version |-> new_version,
        head |-> Append(head_manifest, new_snapshot_index),
        snaps |-> (new_version :> dir1) @@ snaps,
        store |-> store1, created |-> gen]

\* create_snapshot in one step: on the head index as it is stored
create_snapshot(message, tag, link_fails, walk_fails) ==
    create_snapshot_from(head, message, tag, link_fails, walk_fails)

Snapshot(message, tag, link_fails, walk_fails) ==
    /\ pc = "idle"
    /\ created < MaxSnapshots
    /\ link_fails => LinkCandidates # {}
    /\ walk_fails => ~link_fails
    /\ LET r == create_snapshot(message, tag, link_fails, walk_fails) IN
         /\ head' = r.head
         /\ now' = now + (r.created - created)
         /\ snaps' = r.snaps
         /\ store' = r.store
         /\ created' = r.created
         /\ last' = [op |-> "snapshot", ok |-> r.ok, version |-> r.version,
                     message |-> message, tag |-> tag, link_fails |-> link_fails]
    /\ UNCHANGED <<repo, ignore, wt, edits, pc, pending>>

\* ------------------------------------------------------------------------
\* Version Resolver: snapshot ids (info.rs)
\* ------------------------------------------------------------------------
ToLowerChar(c) ==
    CASE c = "L" -> "l" [] c = "A" -> "a" [] c = "T" -> "t" [] c = "E" -> "e"
      [] c = "S" -> "s" [] c = "V" -> "v" [] OTHER -> c

\* str::to_lowercase
ToLowercase(s) == [i \in 1..Len(s) |-> ToLowerChar(s[i])]

Latest == <<"l", "a", "t", "e", "s", "t">>

\* the last of the positions `matching`, as a reverse search finds it
LastIndex(matching) ==
    IF matching = {} THEN 0
    ELSE CHOOSE i \in matching : \A j \in matching : j <= i

\* Iterator::find / Iterator::position: the first of the positions `matching`
\* at which the test holds, 0 if there is none
FirstIndex(matching) ==
    IF matching = {} THEN 0
    ELSE CHOOSE i \in matching : \A j \in matching : i <= j

NotFound == [ok |-> FALSE, version |-> <<>>]

Found(v) == [ok |-> TRUE, version |-> v]

\* info.rs resolve_snapshot_id
resolve_snapshot_id(snapshot_id, head_manifest) ==
    IF Len(head_manifest) = 0 THEN NotFound
    ELSE IF ~IsSome(snapshot_id) THEN Found(head_manifest[Len(head_manifest)].version)
    ELSE LET id == Unwrap(snapshot_id)
             Exact == {i \in 1..Len(head_manifest) : head_manifest[i].version = id}
             Prefix == {i \in 1..Len(head_manifest) :
                           StartsWith(head_manifest[i].version, id)}
         IN IF ToLowercase(id) = Latest
            THEN Found(head_manifest[Len(head_manifest)].version)
            ELSE IF FirstIndex(Exact) # 0
            THEN Found(head_manifest[FirstIndex(Exact)].version)
            ELSE IF FirstIndex(Prefix) # 0
            THEN Found(head_manifest[FirstIndex(Prefix)].version)
            ELSE NotFound

\* ------------------------------------------------------------------------
\* Restore Engine (subcommands/restore.rs)
\* ------------------------------------------------------------------------
\* restore.rs, lines 16-56: the target of a restore
restore_target(snapshot_id, head_manifest) ==
    IF Len(head_manifest) = 0 THEN NotFound
    ELSE IF IsSome(snapshot_id)
    THEN LET id == Unwrap(snapshot_id)
             Exact == {i \in 1..Len(head_manifest) : head_manifest[i].version = id}
             Prefix == {i \in 1..Len(head_manifest) :
                           StartsWith(head_manifest[i].version, id)}
         IN IF ToLowercase(id) = Latest
            THEN Found(head_manifest[Len(head_manifest)].version)
            ELSE IF FirstIndex(Exact) # 0
            THEN Found(head_manifest[FirstIndex(Exact)].version)
            ELSE IF FirstIndex(Prefix) # 0
            THEN Found(head_manifest[FirstIndex(Prefix)].version)
            ELSE NotFound
    ELSE Found(head_manifest[Len(head_manifest)].version)

\* manifest::load_snapshot_manifest(base_path, version): the manifest stored in
\* the folder of `version`, None if that folder has no manifest file
load_snapshot_manifest(sn, st, version) ==
    IF version \in DOMAIN sn /\ PathManifest \in DOMAIN sn[version]
    THEN LET parsed == ParseManifest(st[sn[version][PathManifest]]) IN
         IF IsSome(parsed)
         THEN [err |-> FALSE, some |-> TRUE, map |-> ManifestMap(Unwrap(parsed))]
         ELSE [err |-> TRUE, some |-> FALSE]
    ELSE [err |-> FALSE, some |-> FALSE]

BackupMessage == Some("Auto-backup before restore")

RestoreIds == {None, Some(V1000)}

\* restore_snapshot up to the confirmation prompt (lines 13-104)
\* restore.rs lines 61-68 with the error of the backup only reported
BackupFailureIgnored(b) == FALSE

\* restore.rs lines 61-68: the backup snapshot returned an error
BackupFailed(b) == ~b.ok

\* restore.rs line 59 with the backup flag not looked at
TakesBackupAlways(backup, target) == target.ok

\* restore.rs line 59: the backup is taken once the target is resolved, if asked for
TakesBackup(backup, target) == backup /\ target.ok

RestoreBegin(snapshot_id, backup, link_fails, walk_fails) ==
    /\ pc = "idle"
    /\ link_fails => (backup /\ LinkCandidates # {})
    /\ walk_fails => (backup /\ ~link_fails)
    /\ LET target == restore_target(snapshot_id, head)
           b == IF TakesBackup(backup, target)
                THEN create_snapshot(BackupMessage, None, link_fails, walk_fails)
                ELSE [ok |-> TRUE, version |-> <<>>] @@ Untouched
           loaded == load_snapshot_manifest(b.snaps, b.store, target.version)
           reached == /\ target.ok
                      /\ ~BackupFailed(b)
                      /\ target.version \in DOMAIN b.snaps
                      /\ ~loaded.err
                      /\ loaded.some
       IN /\ b.created <= MaxSnapshots
          /\ head' = b.head
          /\ snaps' = b.snaps
          /\ store' = b.store
          /\ created' = b.created
          /\ now' = now + (b.created - created)
          /\ IF reached
             THEN /\ pc' = "restore_prompt"
                  /\ pending' = [op |-> "restore", ok |-> TRUE, version |-> target.version,
                                 backup |-> backup, manifest |-> DOMAIN loaded.map]
                  /\ last' = NoCommand
             ELSE /\ pc' = "idle"
                  /\ pending' = NoCommand
                  /\ last' = [op |-> "restore", ok |-> FALSE, version |-> target.version,
                               backup_failed |-> ~b.ok]
    /\ UNCHANGED <<repo, ignore, wt, edits>>

\* restore.rs lines 107-120 as a clean checkout: the working tree is replaced
\* by the files of the manifest
checkout_files(tree, snapshot_dir, manifest) ==
    LET copied == {p \in manifest : p \in DOMAIN snapshot_dir}
    IN [p \in copied |-> Bytes(store[snapshot_dir[p]]) @@ [modified |-> now]]

\* restore.rs lines 107-120, the copy loop: the working tree it leaves
copy_files(tree, snapshot_dir, manifest) ==
    LET copied == {p \in manifest : p \in DOMAIN snapshot_dir}
    IN [p \in DOMAIN tree \cup copied |->
           IF p \in copied
           THEN Bytes(store[snapshot_dir[p]]) @@ [modified |-> now]
           ELSE tree[p]]

\* restore_snapshot after Enter (lines 106-123): the copy loop
RestoreConfirm ==
    /\ pc = "restore_prompt"
    /\ LET snapshot_dir == snaps[pending.version]
       IN /\ wt' = copy_files(wt, snapshot_dir, pending.manifest)
          /\ last' = [op |-> "restore", ok |-> TRUE, version |-> pending.version,
                       backup_failed |-> FALSE]
    /\ pc' = "idle"
    /\ pending' = NoCommand
    /\ UNCHANGED <<repo, ignore, head, snaps, store, now, created, edits>>

\* Ctrl+C at the prompt
RestoreAbort ==
    /\ pc = "restore_prompt"
    /\ pc' = "idle"
    /\ pending' = NoCommand
    /\ last' = [op |-> "restore", ok |-> FALSE, version |-> pending.version,
                 backup_failed |-> FALSE]
    /\ UNCHANGED <<repo, ignore, wt, head, snaps, store, now, created, edits>>

\* ------------------------------------------------------------------------
\* Prune Engine (subcommands/prune.rs)
\* ------------------------------------------------------------------------
\* value of a short digit string
RECURSIVE DecimalValue(_)
DecimalValue(s) ==
    IF Len(s) = 0 THEN 0
    ELSE 10 * DecimalValue(SubSeq(s, 1, Len(s) - 1)) + DigitVal(s[Len(s)])

\* number of leading ASCII digits of s
RECURSIVE LeadingDigits(_)
LeadingDigits(s) ==
    IF Len(s) > 0 /\ s[1] \in Digits THEN 1 + LeadingDigits(Tail(s)) ELSE 0

\* seconds per unit name, 0 for a name that is not a unit
UnitSeconds(unit) ==
    CASE unit \in {<<"d">>, <<"d", "a", "y", "s">>, <<"d", "a", "y">>} -> 86400
      [] unit \in {<<"h">>, <<"h", "o", "u", "r", "s">>, <<"h", "o", "u", "r">>} -> 3600
      [] unit \in {<<"m">>, <<"m", "i", "n", "u", "t", "e", "s">>, <<"m", "i", "n">>} -> 60
      [] unit \in {<<"s">>, <<"s", "e", "c", "o", "n", "d", "s">>, <<"s", "e", "c">>} -> 1
      [] OTHER -> 0

\* parse_duration: the loop over chars.by_ref() collects the leading digits and
\* also takes the first character that is not a digit out of the iterator;
\* the unit is what the iterator still holds after the loop
parse_duration(duration_str) ==
    LET n == LeadingDigits(duration_str)
        num_str == SubSeq(duration_str, 1, n)
        unit == SubSeq(duration_str, n + 2, Len(duration_str))
    IN IF n = 0 THEN [ok |-> FALSE, seconds |-> 0]
       ELSE IF UnitSeconds(unit) = 0 THEN [ok |-> FALSE, seconds |-> 0]
       ELSE [ok |-> TRUE, seconds |-> DecimalValue(num_str) * UnitSeconds(unit)]

\* insertion of e behind every entry whose timestamp is not later
InsertByTimestamp(sorted, e) ==
    LET k == Cardinality({i \in 1..Len(sorted) : sorted[i].timestamp <= e.timestamp})
    IN SubSeq(sorted, 1, k) \o <<e>> \o SubSeq(sorted, k + 1, Len(sorted))

\* slice::sort_by(|a, b| a.timestamp.cmp(&b.timestamp)), a stable sort
RECURSIVE SortByTimestamp(_)
SortByTimestamp(hd) ==
    IF Len(hd) = 0 THEN <<>>
    ELSE InsertByTimestamp(SortByTimestamp(SubSeq(hd, 1, Len(hd) - 1)), hd[Len(hd)])

\* Vec::contains
Contains(vec, x) == \E i \in 1..Len(vec) : vec[i] = x

\* the inodes that some snapshot directory still links to
Referenced(sn) == UNION {{sn[v][p] : p \in DOMAIN sn[v]} : v \in DOMAIN sn}

\* prune_snapshots, lines 13-62: the sorted head and the entries selected
PruneSelection(keep_last, older_than) ==
    LET sorted == SortByTimestamp(head)
        by_count == IF IsSome(keep_last)
                    THEN SubSeq(sorted, 1, Len(sorted) - Unwrap(keep_last))
                    ELSE <<>>
        duration == IF IsSome(older_than) THEN parse_duration(Unwrap(older_than))
                    ELSE [ok |-> TRUE, seconds |-> 0]
        cutoff_time == now - duration.seconds * TicksPerSecond
        Old(e) == e.timestamp * TicksPerSecond < cutoff_time /\ ~Contains(by_count, e)
        by_age == IF IsSome(older_than) /\ duration.ok THEN SelectSeq(sorted, Old) ELSE <<>>
    IN [sorted |-> sorted, invalid |-> ~duration.ok, to_delete |-> by_count \o by_age]

PruneInputs == {[keep_last |-> Some(1), older_than |-> None, dry_run |-> FALSE],
                [keep_last |-> Some(1), older_than |-> None, dry_run |-> TRUE],
                [keep_last |-> None, older_than |-> None, dry_run |-> FALSE],
                [keep_last |-> None, older_than |-> Some(<<"0", "s">>), dry_run |-> FALSE],
                [keep_last |-> None, older_than |-> Some(<<"1", "s", "s">>), dry_run |-> FALSE]}

\* the head index file after a return that comes before line 110, written
\* as if the head sorted at line 24 were saved on the way out
HeadFileSavedSorted(stored, sorted) == sorted

\* the head index file after a return that comes before line 110 (lines 20,
\* 33, 45, 67, 72, 83, 92): save_head_manifest has not run, the file is as it was
HeadFileAfterReturn(stored, sorted) == stored

\* prune_snapshots up to the confirmation prompt (lines 8-91)
PruneBegin(keep_last, older_than, dry_run) ==
    /\ pc = "idle"
    /\ LET sel == PruneSelection(keep_last, older_than)
           Return(ok, selected) ==
               /\ pc' = "idle"
               /\ pending' = NoCommand
               /\ last' = [op |-> "prune", ok |-> ok, deleted |-> <<>>,
                           selected |-> selected, declined |-> FALSE,
                           keep_last |-> keep_last, older_than |-> older_than,
                           dry_run |-> dry_run]
       IN IF Len(head) = 0 THEN Return(TRUE, <<>>)
          ELSE IF IsSome(keep_last) /\ Unwrap(keep_last) >= Len(head) THEN Return(TRUE, <<>>)
          ELSE IF sel.invalid THEN Return(FALSE, <<>>)
          ELSE IF ~IsSome(keep_last) /\ ~IsSome(older_than) THEN Return(TRUE, <<>>)
          ELSE IF Len(sel.to_delete) = 0 THEN Return(TRUE, <<>>)
          ELSE IF dry_run THEN Return(TRUE, sel.to_delete)
          ELSE /\ pc' = "prune_prompt"
               /\ pending' = [op |-> "prune", ok |-> TRUE, keep_last |-> keep_last,
                              older_than |-> older_than, dry_run |-> dry_run,
                              sorted |-> sel.sorted, to_delete |-> sel.to_delete]
               /\ last' = NoCommand
    /\ head' = HeadFileAfterReturn(head, SortByTimestamp(head))
    /\ UNCHANGED <<repo, ignore, wt, snaps, store, now, created, edits>>

\* prune.rs line 109 with the retain call left out
RetainAll(head_manifest, to_delete) == head_manifest

\* prune.rs line 109: head_manifest.retain(|s| !to_delete.contains(s))
Retain(head_manifest, to_delete) ==
    LET Kept(e) == ~Contains(to_delete, e) IN SelectSeq(head_manifest, Kept)

\* fs::remove_dir_all that takes the files along which other directories
\* link to
RemoveLinkedFiles(sn, gone) ==
    LET removed == UNION {{sn[v][p] : p \in DOMAIN sn[v]} : v \in gone \cap DOMAIN sn} IN
    [v \in DOMAIN sn \ gone |->
        [p \in {q \in DOMAIN sn[v] : sn[v][q] \notin removed} |-> sn[v][p]]]

\* fs::remove_dir_all of the directories `gone` (prune.rs lines 96-106): the
\* directories and their entries go, the other directories keep theirs
RemoveDirAll(sn, gone) == [v \in DOMAIN sn \ gone |-> sn[v]]

\* prune_snapshots after the answer "y" (lines 95-112)
PruneConfirm ==
    /\ pc = "prune_prompt"
    /\ LET gone == {pending.to_delete[i].version : i \in 1..Len(pending.to_delete)}
           left == RemoveDirAll(snaps, gone)
       IN /\ snaps' = left
          /\ store' = [i \in Referenced(left) |-> store[i]]
          /\ head' = Retain(pending.sorted, pending.to_delete)
    /\ pc' = "idle"
    /\ pending' = NoCommand
    /\ last' = [op |-> "prune", ok |-> TRUE, deleted |-> pending.to_delete,
                 selected |-> pending.to_delete, declined |-> FALSE,
                 keep_last |-> pending.keep_last, older_than |-> pending.older_than,
                 dry_run |-> pending.dry_run]
    /\ UNCHANGED <<repo, ignore, wt, now, created, edits>>

\* prune_snapshots after any other answer (lines 89-93)
PruneDecline ==
    /\ pc = "prune_prompt"
    /\ pc' = "idle"
    /\ pending' = NoCommand
    /\ last' = [op |-> "prune", ok |-> TRUE, deleted |-> <<>>,
                 selected |-> pending.to_delete, declined |-> TRUE,
                 keep_last |-> pending.keep_last, older_than |-> pending.older_than,
                 dry_run |-> pending.dry_run]
    /\ head' = HeadFileAfterReturn(head, pending.sorted)
    /\ UNCHANGED <<repo, ignore, wt, snaps, store, now, created, edits>>

\* ------------------------------------------------------------------------
\* Tags and custom metadata (subcommands/tag.rs, subcommands/meta.rs)
\* ------------------------------------------------------------------------
\* SnapshotMetadata::default()
DefaultMetadata == [tags |-> <<>>, custom |-> <<>>]

\* the entry's metadata, initialised when it has none
MetadataOrDefault(e) == IF IsSome(e.metadata) THEN Unwrap(e.metadata) ELSE DefaultMetadata

\* tags.push(tag) for every tag not yet in the list
RECURSIVE AddTags(_, _)
AddTags(tags, new) ==
    IF Len(new) = 0 THEN tags
    ELSE AddTags(IF Contains(tags, new[1]) THEN tags ELSE Append(tags, new[1]), Tail(new))

\* Vec::remove at the first position of tag, if any
RemoveFirst(tags, tag) ==
    IF Contains(tags, tag)
    THEN LET pos == CHOOSE i \in 1..Len(tags) :
                        tags[i] = tag /\ \A j \in 1..(i - 1) : tags[j] # tag
         IN SubSeq(tags, 1, pos - 1) \o SubSeq(tags, pos + 1, Len(tags))
    ELSE tags

RECURSIVE RemoveTags(_, _)
RemoveTags(tags, old) ==
    IF Len(old) = 0 THEN tags ELSE RemoveTags(RemoveFirst(tags, old[1]), Tail(old))

\* tag.rs lines 20-23, meta.rs lines 17-20: the entry the command works on
EntryPosition(head_manifest, actual_id) ==
    FirstIndex({i \in 1..Len(head_manifest) :
                   \/ head_manifest[i].version = actual_id
                   \/ StartsWith(head_manifest[i].version, actual_id)})

TagInputs == {[id |-> None, add |-> Some(<<"prod">>), remove |-> None],
              [id |-> Some(V1000), add |-> None, remove |-> Some(<<"prod">>)]}

\* manage_tags
ManageTags(snapshot_id, add, remove) ==
    /\ pc = "idle"
    /\ LET resolved == resolve_snapshot_id(snapshot_id, head)
           snapshot_index == EntryPosition(head, resolved.version)
           found == resolved.ok /\ snapshot_index # 0
           snapshot == head[snapshot_index]
           metadata == MetadataOrDefault(snapshot)
           tags == IF IsSome(add) THEN AddTags(metadata.tags, Unwrap(add))
                   ELSE RemoveTags(metadata.tags, Unwrap(remove))
           saves == found /\ (IsSome(add) \/ IsSome(remove))
       IN /\ saves => edits < MaxEdits
          /\ head' = IF saves
                     THEN [head EXCEPT ![snapshot_index].metadata =
                               Some([metadata EXCEPT !.tags = tags])]
                     ELSE head
          /\ edits' = IF saves THEN edits + 1 ELSE edits
          /\ now' = IF saves THEN now + 1 ELSE now
          /\ last' = [op |-> "tag", ok |-> found, snapshot_id |-> snapshot_id,
                      add |-> add, remove |-> remove, before |-> head,
                      target |-> IF found THEN snapshot.version ELSE <<>>]
    /\ UNCHANGED <<repo, ignore, wt, snaps, store, created, pc, pending>>

MetaInputs == {[id |-> None, set |-> Some(<<"key", "value">>), remove |-> None]}

\* manage_metadata
ManageMetadata(snapshot_id, set, remove) ==
    /\ pc = "idle"
    /\ LET resolved == resolve_snapshot_id(snapshot_id, head)
           snapshot_index == EntryPosition(head, resolved.version)
           found == resolved.ok /\ snapshot_index # 0
           invalid == IsSome(set) /\ Len(Unwrap(set)) # 2
           snapshot == head[snapshot_index]
           metadata == MetadataOrDefault(snapshot)
           custom == IF IsSome(set)
                     THEN [k \in DOMAIN metadata.custom \cup {Unwrap(set)[1]} |->
                              IF k = Unwrap(set)[1] THEN Unwrap(set)[2]
                              ELSE metadata.custom[k]]
                     ELSE [k \in DOMAIN metadata.custom \ {Unwrap(remove)} |->
                              metadata.custom[k]]
           saves == found /\ ~invalid /\ (IsSome(set) \/ IsSome(remove))
       IN /\ saves => edits < MaxEdits
          /\ head' = IF saves
                     THEN [head EXCEPT ![snapshot_index].metadata =
                               Some([metadata EXCEPT !.custom = custom])]
                     ELSE head
          /\ edits' = IF saves THEN edits + 1 ELSE edits
          /\ now' = IF saves THEN now + 1 ELSE now
          /\ last' = [op |-> "meta", ok |-> found /\ ~invalid, snapshot_id |-> snapshot_id,
                      target |-> IF found THEN snapshot.version ELSE <<>>]
    /\ UNCHANGED <<repo, ignore, wt, snaps, store, created, pc, pending>>

\* ------------------------------------------------------------------------
\* verify
\* ------------------------------------------------------------------------
\* verify.rs line 137 with a test that only notices a file that has shrunk
SizeSmaller(actual_meta, meta) == actual_meta.size < meta.file_size

\* verify.rs line 137: the stored file's size is not the recorded one
SizeMismatch(actual_meta, meta) == actual_meta.size # meta.file_size

\* verify_single_snapshot(base_path, version)
verify_single_snapshot(sn, st, version) ==
    LET Failed == [err |-> TRUE, success |-> FALSE, missing_files |-> 0, corrupt_files |-> 0] IN
    IF version \notin DOMAIN sn
    THEN Failed
    ELSE IF PathManifest \notin DOMAIN sn[version]
    THEN Failed
    ELSE LET parsed == ParseManifest(st[sn[version][PathManifest]]) IN
         IF ~IsSome(parsed)
         THEN Failed
         ELSE LET metadata_vec == Unwrap(parsed)
                  missing == {m \in metadata_vec : m.relative_path \notin DOMAIN sn[version]}
                  corrupt == {m \in metadata_vec \ missing :
                                 SizeMismatch(st[sn[version][m.relative_path]], m)}
              IN [err |-> FALSE,
                  success |-> (missing = {} /\ corrupt = {}),
                  missing_files |-> Cardinality(missing),
                  corrupt_files |-> Cardinality(corrupt)]

\* verify_snapshots(snapshot_id): the snapshots it targets, the result for
\* each, and its own outcome
verify_snapshots(snapshot_id) ==
    LET NoTargets(ok, found) == [ok |-> ok, found |-> found, results |-> <<>>] IN
    IF Len(head) = 0 THEN NoTargets(TRUE, TRUE)
    ELSE LET matching == IF IsSome(snapshot_id)
                         THEN {i \in 1..Len(head) :
                                  \/ head[i].version = Unwrap(snapshot_id)
                                  \/ StartsWith(head[i].version, Unwrap(snapshot_id))}
                         ELSE {}
             snapshots_to_verify ==
                 IF ~IsSome(snapshot_id) THEN head
                 ELSE IF matching = {} THEN <<>>
                 ELSE <<head[FirstIndex(matching)]>>
             results == [i \in 1..Len(snapshots_to_verify) |->
                            [version |-> snapshots_to_verify[i].version]
                               @@ verify_single_snapshot(snaps, store,
                                                         snapshots_to_verify[i].version)]
             error_count == Cardinality({i \in 1..Len(results) :
                                            results[i].err \/ ~results[i].success})
         IN IF IsSome(snapshot_id) /\ matching = {} THEN NoTargets(FALSE, FALSE)
            ELSE [ok |-> (error_count = 0), found |-> TRUE, results |-> results]

Verify(snapshot_id) ==
    /\ pc = "idle"
    /\ last' = [op |-> "verify", snapshot_id |-> snapshot_id] @@ verify_snapshots(snapshot_id)
    /\ UNCHANGED <<repo, ignore, wt, head, snaps, store, now, created, edits, pc, pending>>

\* the version of the i-th snapshot taken without an explicit version
BuildVersion(i) == FormatVersion(<<"1">>, <<"0">>, <<"0">>, FormatNat(i - 1))

\* verify on its own, for repositories whose snapshot directories need not
\* agree with their manifests: of every manifest path the stored file can be
\* there with the recorded size, there with another size, or not there; the
\* directory or its manifest file can be gone, the manifest can be unreadable
VerifyPaths == {PathA, PathSubB}

VerifyRecords ==
    UNION {{{[relative_path |-> p, file_size |-> sz[p], modified |-> 0] : p \in S} :
               sz \in [S -> 1..MaxVerifySize]} : S \in SUBSET VerifyPaths}

VerifyStored == UNION {[S -> 1..MaxVerifySize] : S \in SUBSET VerifyPaths}

VerifyLayouts ==
    {[kind |-> k, recs |-> {}, files |-> <<>>] : k \in {"absent", "bare", "unreadable"}}
       \cup {[kind |-> "manifest", recs |-> r, files |-> f] :
                 r \in VerifyRecords, f \in VerifyStored}

\* the directory of the i-th snapshot for a layout, and the files behind it
VerifyInode(i, p) == [gen |-> i, path |-> p]

VerifyDir(i, layout) ==
    IF layout.kind = "bare" THEN <<>>
    ELSE [p \in DOMAIN layout.files \cup {PathManifest} |-> VerifyInode(i, p)]

VerifyContent(layout, p) ==
    IF p = PathManifest
    THEN IF layout.kind = "unreadable" THEN [size |-> 1, data |-> "x", recs |-> {}]
         ELSE ManifestJson(layout.recs)
    ELSE [size |-> layout.files[p], data |-> "x", recs |-> {}]

VerifyIds == {None, Some(V1000), Some(<<"v", "1">>), Some(<<"v", "9">>)}

InitVerify ==
    /\ repo = TRUE
    /\ ignore = DEFAULT_IGNORE_ITEMS
    /\ wt = <<>>
    /\ \E n \in 0..2 : \E layout \in [1..n -> VerifyLayouts] :
          /\ head = [i \in 1..n |-> SnapshotIndex(BuildVersion(i), 0, None)]
          /\ snaps = [v \in {BuildVersion(i) : i \in {j \in 1..n : layout[j].kind # "absent"}} |->
                         LET i == CHOOSE j \in 1..n : BuildVersion(j) = v
                         IN VerifyDir(i, layout[i])]
          /\ store = [ino \in UNION {{VerifyInode(i, p) : p \in DOMAIN VerifyDir(i, layout[i])} :
                                        i \in {j \in 1..n : layout[j].kind # "absent"}} |->
                         VerifyContent(layout[ino.gen], ino.path)]
          /\ created = n
    /\ now = 0
    /\ edits = 0
    /\ pc = "idle"
    /\ pending = NoCommand
    /\ last = NoCommand

NextVerify == \E id \in VerifyIds : Verify(id)

SpecVerify == InitVerify /\ [][NextVerify]_vars

\* The resolution of a snapshot id on its own. Explicit versions put entries
\* into the head in any order (get_next_version takes a full "v" version as
\* it is), so an entry can follow one that its version is a prefix of.
ResolveVersions ==
    {V1000, BuildVersion(2), BuildVersion(11),
     FormatVersion(<<"2">>, <<"0">>, <<"0">>, <<"0">>)}

\* the heads of up to MaxResolveHead distinct versions
ResolveHeads ==
    UNION {{[i \in 1..n |-> SnapshotIndex(f[i], 0, None)] :
               f \in {g \in [1..n -> ResolveVersions] :
                         \A i, j \in 1..n : g[i] = g[j] => i = j}} :
           n \in 0..MaxResolveHead}

ResolveIds ==
    {None, Some(Latest), Some(<<"L", "a", "T", "E", "s", "t">>),
     Some(<<"l", "a", "t", "e">>), Some(<<>>), Some(<<"v">>), Some(<<"v", "1">>),
     Some(<<"v", "2">>), Some(<<"v", "3">>), Some(BuildVersion(2)),
     Some(<<"1", ".", "0", ".", "0", ".", "1">>)}

InitResolve ==
    /\ repo = TRUE
    /\ ignore = DEFAULT_IGNORE_ITEMS
    /\ wt = <<>>
    /\ head \in ResolveHeads
    /\ snaps = <<>>
    /\ store = <<>>
    /\ now = 0
    /\ created = Len(head)
    /\ edits = 0
    /\ pc = "idle"
    /\ pending = NoCommand
    /\ last = NoCommand

\* the id as info, tag and meta resolve it (resolve_snapshot_id) and as restore
\* resolves it (restore.rs lines 16-56)
Resolve(snapshot_id) ==
    /\ pc = "idle"
    /\ last' = [op |-> "resolve", snapshot_id |-> snapshot_id,
                resolved |-> resolve_snapshot_id(snapshot_id, head),
                restore |-> restore_target(snapshot_id, head)]
    /\ UNCHANGED <<repo, ignore, wt, head, snaps, store, now, created, edits, pc, pending>>

NextResolve == \E id \in ResolveIds : Resolve(id)

SpecResolve == InitResolve /\ [][NextResolve]_vars

\* show_snapshot_info(snapshot_id) (subcommands/info.rs lines 10-34): the
\* snapshot whose information is shown
Info(snapshot_id) ==
    /\ pc = "idle"
    /\ LET resolved == resolve_snapshot_id(snapshot_id, head)
           snapshot_index == EntryPosition(head, resolved.version)
           found == resolved.ok /\ snapshot_index # 0
           loaded == load_snapshot_manifest(snaps, store, head[snapshot_index].version)
       IN last' = [op |-> "info", ok |-> found /\ ~loaded.err /\ loaded.some,
                   snapshot_id |-> snapshot_id,
                   target |-> IF found THEN head[snapshot_index].version ELSE <<>>]
    /\ UNCHANGED <<repo, ignore, wt, head, snaps, store, now, created, edits, pc, pending>>

\* The commands that take a snapshot id and work on one snapshot (tag, meta,
\* info, verify), on the heads of the resolver specification; every snapshot
\* directory holds the manifest of an empty tree.
TargetIds ==
    {None, Some(Latest), Some(BuildVersion(2)), Some(<<"v", "1">>), Some(<<"v", "3">>)}

TargetTagInputs ==
    {[add |-> Some(<<"prod">>), remove |-> None],
     [add |-> Some(<<"dev">>), remove |-> None],
     [add |-> None, remove |-> Some(<<"prod">>)],
     [add |-> None, remove |-> None]}

TargetMetaInputs ==
    {[set |-> Some(<<"key", "value">>), remove |-> None],
     [set |-> None, remove |-> Some("key")]}

InitTarget ==
    /\ repo = TRUE
    /\ ignore = DEFAULT_IGNORE_ITEMS
    /\ wt = <<>>
    /\ head \in ResolveHeads
    /\ snaps = [v \in {head[i].version : i \in 1..Len(head)} |->
                   (PathManifest :> [gen |-> 1, path |-> <<v>>])]
    /\ store = [ino \in {[gen |-> 1, path |-> <<head[i].version>>] : i \in 1..Len(head)} |->
                   ManifestJson({})]
    /\ now = 0
    /\ created = Len(head)
    /\ edits = MaxEdits - MaxTagEdits
    /\ pc = "idle"
    /\ pending = NoCommand
    /\ last = NoCommand

NextTarget ==
    \/ \E id \in TargetIds, t \in TargetTagInputs : ManageTags(id, t.add, t.remove)
    \/ \E id \in TargetIds, m \in TargetMetaInputs : ManageMetadata(id, m.set, m.remove)
    \/ \E id \in TargetIds : Info(id)
    \/ \E id \in TargetIds : Verify(id)

SpecTarget == InitTarget /\ [][NextTarget]_vars

\* ------------------------------------------------------------------------
\* Two invocations at a time.  A command is a process of its own: it reads
\* the head index file (load_head_manifest), works on the vector it has read,
\* and writes the whole vector back (save_head_manifest); nothing keeps
\* another invocation from running between the two.  `pending.procs` holds,
\* for each of the two invocations, its command, where it is, the vector it
\* holds, how many other invocations had saved when it loaded (`seen`) and
\* when it saved (`saved_after`), and the version of its snapshot.
\* ------------------------------------------------------------------------
Procs == {1, 2}

ConcurrentCommands ==
    {[kind |-> "snapshot", tag |-> None, add |-> <<>>],
     [kind |-> "snapshot", tag |-> Some(<<"2">>), add |-> <<>>],
     [kind |-> "snapshot", tag |-> Some(<<"3">>), add |-> <<>>],
     [kind |-> "tag", tag |-> None, add |-> <<"prod">>]}

NotStarted(cmd) ==
    [cmd |-> cmd, pc |-> "start", loaded |-> <<>>, seen |-> 0, saved_after |-> 0,
     version |-> <<>>]

InitConcurrent ==
    /\ repo = TRUE
    /\ ignore = DEFAULT_IGNORE_ITEMS
    /\ wt \in {<<>>, (PathA :> StaticFile)}
    /\ head = <<SnapshotIndex(V1000, 0, None)>>
    /\ snaps = (V1000 :> (PathManifest :> [gen |-> 1, path |-> PathManifest]))
    /\ store = ([gen |-> 1, path |-> PathManifest] :> ManifestJson({}))
    /\ now = TicksPerSecond
    /\ created = 1
    /\ edits = 0
    /\ pc = "idle"
    /\ pending \in {[op |-> "concurrent", ok |-> TRUE,
                      procs |-> [p \in Procs |-> NotStarted(c[p])]] :
                        c \in {d \in [Procs -> ConcurrentCommands] : d[1] # d[2]}}
    /\ last = NoCommand

\* the other invocations that have saved the head index
Saved(p) == Cardinality({q \in Procs \ {p} : pending.procs[q].pc = "done"})

\* manage_tags up to its save (tag.rs lines 15-44), for the tags to add to
\* the snapshot V1000: the vector to save
tagged(head_manifest, add) ==
    LET resolved == resolve_snapshot_id(Some(V1000), head_manifest)
        snapshot_index == EntryPosition(head_manifest, resolved.version)
        metadata == MetadataOrDefault(head_manifest[snapshot_index])
    IN IF resolved.ok /\ snapshot_index # 0
       THEN [ok |-> TRUE,
             head |-> [head_manifest EXCEPT ![snapshot_index].metadata =
                          Some([metadata EXCEPT !.tags = AddTags(metadata.tags, add)])]]
       ELSE [ok |-> FALSE, head |-> head_manifest]

\* load_head_manifest (snapshot.rs line 29, tag.rs line 15); the tag command
\* edits the vector it has read right away
LoadHead(p) ==
    LET proc == pending.procs[p]
        edited == tagged(head, proc.cmd.add)
    IN /\ pc = "idle"
       /\ pending.op = "concurrent"
       /\ proc.pc = "start"
       /\ pending' = [pending EXCEPT !.procs[p] =
                         IF proc.cmd.kind = "snapshot"
                         THEN [proc EXCEPT !.pc = "loaded", !.loaded = head, !.seen = Saved(p)]
                         ELSE [proc EXCEPT !.pc = IF edited.ok THEN "built" ELSE "failed",
                                           !.loaded = edited.head, !.seen = Saved(p)]]
       /\ last' = [op |-> "concurrent", ok |-> TRUE, proc |-> p, step |-> "load"]
       /\ UNCHANGED <<repo, ignore, wt, head, snaps, store, now, created, edits, pc>>

\* create_snapshot from the version to the push of the new entry (snapshot.rs
\* lines 31-73), on the vector the invocation has read
BuildSnapshot(p) ==
    LET proc == pending.procs[p]
        r == create_snapshot_from(proc.loaded, None, proc.cmd.tag, FALSE, FALSE)
    IN /\ pc = "idle"
       /\ pending.op = "concurrent"
       /\ proc.pc = "loaded"
       /\ snaps' = r.snaps
       /\ store' = r.store
       /\ created' = r.created
       /\ now' = now + 1
       /\ pending' = [pending EXCEPT !.procs[p] =
                         [proc EXCEPT !.pc = IF r.ok THEN "built" ELSE "failed",
                                      !.loaded = r.head, !.version = r.version]]
       /\ last' = [op |-> "concurrent", ok |-> r.ok, proc |-> p, step |-> "build"]
       /\ UNCHANGED <<repo, ignore, wt, head, edits, pc>>

\* save_head_manifest with the write left out
HeadLeftAsStored(mine, stored) == stored

\* save_head_manifest (manifest.rs lines 32-38): the file becomes the vector
\* of the invocation, whatever it holds by now
HeadAfterSave(mine, stored) == mine

SaveHead(p) ==
    LET proc == pending.procs[p] IN
    /\ pc = "idle"
    /\ pending.op = "concurrent"
    /\ proc.pc = "built"
    /\ head' = HeadAfterSave(proc.loaded, head)
    /\ pending' = [pending EXCEPT !.procs[p] =
                      [proc EXCEPT !.pc = "done", !.saved_after = Saved(p)]]
    /\ last' = [op |-> "concurrent", ok |-> TRUE, proc |-> p, step |-> "save"]
    /\ UNCHANGED <<repo, ignore, wt, snaps, store, now, created, edits, pc>>

NextConcurrent ==
    \E p \in Procs : LoadHead(p) \/ BuildSnapshot(p) \/ SaveHead(p)

SpecConcurrent == InitConcurrent /\ [][NextConcurrent]_vars

\* get_next_version on its own. The versions are ones that explicit versions
\* put into the head: a full "v" version is taken as it is, and four parts
\* are joined as they are (info.rs lines 16-44), whatever the build part is.
U32MaxLessOne == <<"4", "2", "9", "4", "9", "6", "7", "2", "9", "4">>

VersionPool ==
    {V1000, BuildVersion(2),
     FormatVersion(<<"1">>, <<"2">>, <<"3">>, <<"9">>),
     FormatVersion(<<"1">>, <<"0">>, <<"0">>, <<"0", "7">>),
     FormatVersion(<<"2">>, <<"0">>, <<"0">>, U32MaxLessOne),
     FormatVersion(<<"2">>, <<"0">>, <<"0">>, U32Max),
     FormatVersion(<<"2">>, <<"0">>, <<"0">>, U32Max \o <<"0">>),
     FormatVersion(<<"3">>, <<"0">>, <<"0">>, <<"x">>)}

VersionHeads ==
    UNION {{[i \in 1..n |-> SnapshotIndex(f[i], 0, None)] :
               f \in {g \in [1..n -> VersionPool] :
                         \A i, j \in 1..n : g[i] = g[j] => i = j}} :
           n \in 0..MaxVersionHead}

VersionInputs ==
    {None} \cup
    {Some(v) : v \in
        {<<"2">>, <<"1", ".", "5">>, <<"2", ".", "3", ".", "1">>, <<"v", "1", ".", "5">>,
         <<"9", ".", "9", ".", "9", ".", "9">>,
         V1000, FormatVersion(<<"1">>, <<"2">>, <<"3">>, <<"9">>),
         FormatVersion(<<"2">>, <<"0">>, <<"0">>, U32Max),
         FormatVersion(<<"2">>, <<"0">>, <<"0">>, U32Max \o <<"0">>),
         <<"a", "b", "c">>, <<"1", ".", "x">>,
         <<"1", ".", "2", ".", "3", ".", "4", ".", "5">>,
         <<"v", "1", ".", "2", ".", "3", ".", "4", ".", "5">>}}

\* the build number that get_next_version adds 1 to (lines 24-25 and 63-64),
\* None if it returns without adding
IncrementedBuild(hd, version) ==
    LET Build(v) == LET parts == Split(TrimStartMatches(v, "v"), ".")
                        parsed == ParseU32(parts[4])
                    IN IF IsSome(parsed) THEN parsed ELSE Some(<<"0">>)
    IN IF IsSome(version)
       THEN IF /\ StartsWith(Unwrap(version), <<"v">>)
               /\ CountChar(Unwrap(version), ".") = 3
               /\ \E i \in 1..Len(hd) : hd[i].version = Unwrap(version)
            THEN Build(Unwrap(version))
            ELSE None
       ELSE IF Len(hd) > 0 /\ Len(Split(TrimStartMatches(hd[Len(hd)].version, "v"), ".")) = 4
            THEN Build(hd[Len(hd)].version)
            ELSE None

InitVersion ==
    /\ repo = TRUE
    /\ ignore = DEFAULT_IGNORE_ITEMS
    /\ wt = <<>>
    /\ head \in VersionHeads
    /\ snaps = <<>>
    /\ store = <<>>
    /\ now = 0
    /\ created = Len(head)
    /\ edits = 0
    /\ pc = "idle"
    /\ pending = NoCommand
    /\ last = NoCommand

\* a call of get_next_version. `build + 1` on the largest u32 panics in a
\* build with overflow checks and wraps to 0 in one without.
NextVersion(version, overflow_checks) ==
    /\ pc = "idle"
    /\ LET panic == overflow_checks /\ IncrementedBuild(head, version) = Some(U32Max) IN
       last' = [op |-> "next_version", version |-> version, panic |-> panic,
                result |-> IF panic THEN <<>> ELSE get_next_version(head, version)]
    /\ UNCHANGED <<repo, ignore, wt, head, snaps, store, now, created, edits, pc, pending>>

NextVersions ==
    \E version \in VersionInputs, overflow_checks \in BOOLEAN :
        NextVersion(version, overflow_checks)

SpecVersion == InitVersion /\ [][NextVersions]_vars

\* ------------------------------------------------------------------------
\* diff
\* ------------------------------------------------------------------------
Range(s) == {s[i] : i \in 1..Len(s)}

\* the orders in which a HashMap with the keys S can be iterated
Orders(S) == {o \in [1..Cardinality(S) -> S] : Range(o) = S}

\* diff.rs line 34 with the comparison of the modified strings left out
DiffersInSizeOnly(meta1, meta2) ==
    meta1.file_size # meta2.file_size

\* diff.rs line 34
Differs(meta1, meta2) ==
    meta1.file_size # meta2.file_size \/ meta1.modified # meta2.modified

\* diff.rs lines 31-42, the pushes to `added`
diff_added(manifest1, manifest2, order2) ==
    LET IsAdded(path) == path \notin DOMAIN manifest1 IN SelectSeq(order2, IsAdded)

\* diff.rs lines 31-42, the pushes to `updated`
diff_updated(manifest1, manifest2, order2) ==
    LET IsUpdated(path) == /\ path \in DOMAIN manifest1
                           /\ Differs(manifest1[path], manifest2[path])
    IN SelectSeq(order2, IsUpdated)

\* diff.rs lines 43-47 with the membership test applied to the wrong map
diff_removed_wrong_map(manifest1, manifest2, order1) ==
    LET IsRemoved(path) == path \notin DOMAIN manifest1 IN SelectSeq(order1, IsRemoved)

\* diff.rs lines 43-47
diff_removed(manifest1, manifest2, order1) ==
    LET IsRemoved(path) == path \notin DOMAIN manifest2 IN SelectSeq(order1, IsRemoved)

\* diff.rs lines 24-47: the three lists, for the iteration orders of the two maps
diff(manifest1, manifest2, order1, order2) ==
    [added |-> diff_added(manifest1, manifest2, order2),
     removed |-> diff_removed(manifest1, manifest2, order1),
     updated |-> diff_updated(manifest1, manifest2, order2)]

\* the manifests the diff is applied to: every map from a subset of DiffPaths
\* to metadata with sizes 1..MaxDiffSize and modified strings 0..MaxDiffTime
DiffPaths == {PathA, PathSubB}

DiffMetas(p) == {[relative_path |-> p, file_size |-> sz, modified |-> t] :
                    sz \in 1..MaxDiffSize, t \in 0..MaxDiffTime}

DiffManifests ==
    UNION {{m \in [S -> UNION {DiffMetas(p) : p \in S}] :
               \A p \in S : m[p].relative_path = p} : S \in SUBSET DiffPaths}

InitDiff ==
    /\ repo = TRUE
    /\ ignore = {}
    /\ wt = <<>>
    /\ head = <<>>
    /\ snaps = <<>>
    /\ store = <<>>
    /\ now = 0
    /\ created = 0
    /\ edits = 0
    /\ pc = "idle"
    /\ pending \in {[op |-> "diff", ok |-> TRUE, manifest1 |-> m1, manifest2 |-> m2] :
                       m1 \in DiffManifests, m2 \in DiffManifests}
    /\ last = NoCommand

\* diff_snapshots from line 24 on, for the two loaded manifests
DiffSnapshots(order1, order2) ==
    /\ pending.op = "diff"
    /\ last.op = "none"
    /\ last' = [op |-> "diff", ok |-> TRUE]
                 @@ diff(pending.manifest1, pending.manifest2, order1, order2)
    /\ UNCHANGED <<repo, ignore, wt, head, snaps, store, now, created, edits, pc, pending>>

NextDiff ==
    \E order1 \in Orders(DOMAIN pending.manifest1),
       order2 \in Orders(DOMAIN pending.manifest2) : DiffSnapshots(order1, order2)

SpecDiff == InitDiff /\ [][NextDiff]_vars

\* ------------------------------------------------------------------------
\* prune on its own.  The timestamps of the head come from Local::now()
\* (snapshot.rs line 65), the wall clock in local time without zone: it steps
\* back when the clock is set or daylight saving time ends, so the head's
\* stored order need not be the order of its timestamps.
\* ------------------------------------------------------------------------
\* the heads of n snapshots v1.0.0.0, v1.0.0.1, ... taken without message
PruneHeadsOfLength(n) ==
    {[i \in 1..n |-> SnapshotIndex(BuildVersion(i), ts[i], None)] :
        ts \in [1..n -> 0..MaxPruneTime]}

PruneHeads == UNION {PruneHeadsOfLength(n) : n \in 0..MaxPruneHead}

DurationStrings == {<<"0", "s">>, <<"1", "s">>, <<"2", "s">>, <<"1", "s", "e", "c">>,
                    <<"1", "s", "s">>, <<"1", "x", "s">>, <<"1">>, <<"s">>, <<"1", "x">>}

PruneCalls ==
    [keep_last : {None} \cup {Some(n) : n \in 0..MaxPruneHead},
     older_than : {None} \cup {Some(d) : d \in DurationStrings},
     dry_run : BOOLEAN]

\* a repository with the snapshots of `head`, each of an empty tree
InitPrune ==
    /\ repo = TRUE
    /\ ignore = DEFAULT_IGNORE_ITEMS
    /\ wt = <<>>
    /\ head \in PruneHeads
    /\ snaps = [v \in {head[i].version : i \in 1..Len(head)} |->
                   (PathManifest :> [gen |-> 1, path |-> <<v>>])]
    /\ store = [ino \in {[gen |-> 1, path |-> <<head[i].version>>] : i \in 1..Len(head)} |->
                   ManifestJson({})]
    /\ now = TicksPerSecond * (MaxPruneTime + 1)
    /\ created = Len(head)
    /\ edits = 0
    /\ pc = "idle"
    /\ pending = NoCommand
    /\ last = NoCommand

NextPrune ==
    \/ \E c \in PruneCalls : PruneBegin(c.keep_last, c.older_than, c.dry_run)
    \/ PruneConfirm
    \/ PruneDecline

SpecPrune == InitPrune /\ [][NextPrune]_vars

\* ------------------------------------------------------------------------
\* The program
\* ------------------------------------------------------------------------
Next ==
    \/ \E p \in MutablePaths, c \in UserContents : WriteFile(p, c)
    \/ \E p \in MutablePaths : RemoveFile(p)
    \/ InitRepository
    \/ \E i \in SnapshotInputs, link_fails \in BOOLEAN, walk_fails \in BOOLEAN :
          Snapshot(i.message, i.version, link_fails, walk_fails)
    \/ \E id \in RestoreIds, backup \in BOOLEAN, link_fails \in BOOLEAN,
          walk_fails \in BOOLEAN :
          RestoreBegin(id, backup, link_fails, walk_fails)
    \/ RestoreConfirm
    \/ RestoreAbort
    \/ \E i \in PruneInputs : PruneBegin(i.keep_last, i.older_than, i.dry_run)
    \/ PruneConfirm
    \/ PruneDecline
    \/ \E i \in TagInputs : ManageTags(i.id, i.add, i.remove)
    \/ \E i \in MetaInputs : ManageMetadata(i.id, i.set, i.remove)

Spec == Init /\ [][Next]_vars

\* ------------------------------------------------------------------------
\* Properties
\* ------------------------------------------------------------------------
Versions(hd) == {hd[i].version : i \in 1..Len(hd)}

\* a step of the snapshot command that succeeded
SnapshotSucceeds == /\ pc = "idle"
                    /\ created' = created + 1
                    /\ last'.op = "snapshot"
                    /\ last'.ok

\* C1: a successful snapshot appends exactly one entry to the head index and
\* leaves the entries that were there unchanged; the new entry's version is
\* the one get_next_version computes from the head before the step and the
\* supplied version, its message is the supplied message, it has no metadata.
C1_SnapshotAppendsOneEntry ==
    [][SnapshotSucceeds =>
          /\ Len(head') = Len(head) + 1
          /\ SubSeq(head', 1, Len(head)) = head
          /\ head'[Len(head')].version = get_next_version(head, last'.tag)
          /\ head'[Len(head')].version = last'.version
          /\ head'[Len(head')].message = last'.message
          /\ head'[Len(head')].metadata = None]_vars

\* a second snapshot, with a message, was appended behind an earlier entry
C1_Witness ==
    /\ last.op = "snapshot" /\ last.ok
    /\ Len(head) = 2
    /\ head[2].version = last.version
    /\ last.message = Some("msg")
    /\ head[2].message = Some("msg")

\* C2: no two entries of the head index have the same version.
C2_VersionsUnique ==
    \A i, j \in 1..Len(head) : head[i].version = head[j].version => i = j

\* a snapshot asked for a version that the head already lists and was refused
C2_Witness ==
    /\ last.op = "snapshot" /\ ~last.ok /\ repo
    /\ last.version \in Versions(head)
    /\ Len(head) >= 1

\* C3: the versions listed in the head index are exactly the snapshot
\* directories that hold a manifest file.
C3_HeadMatchesDirectories ==
    Versions(head) = {v \in DOMAIN snaps : PathManifest \in DOMAIN snaps[v]}

\* a prune removed a snapshot directory and its entry while another stayed
C3_Witness ==
    /\ last.op = "prune" /\ last.ok
    /\ Len(last.deleted) >= 1
    /\ Len(head) >= 1
    /\ Versions(head) = DOMAIN snaps

\* the manifest stored in the snapshot directory `version`, as a map
ManifestOf(sn, st, version) == ManifestMap(st[sn[version][PathManifest]].recs)

\* the inodes that the snapshot directories of `sn` refer to
Inodes(sn) == UNION {{sn[v][p] : p \in DOMAIN sn[v]} : v \in DOMAIN sn}

\* the files of the new snapshot that the previous snapshot (the last entry
\* of the head before the step) holds with the same size and modified string
UnchangedSincePrevious ==
    IF Len(head) = 0 THEN {}
    ELSE LET prev == head[Len(head)].version
             new == last'.version
         IN {p \in DOMAIN snaps[prev] \cap DOMAIN snaps'[new] :
                /\ p \in DOMAIN ManifestOf(snaps, store, prev)
                /\ p \in DOMAIN ManifestOf(snaps', store', new)
                /\ ManifestOf(snaps, store, prev)[p].file_size
                      = ManifestOf(snaps', store', new)[p].file_size
                /\ ManifestOf(snaps, store, prev)[p].modified
                      = ManifestOf(snaps', store', new)[p].modified}

C5_FreshSnapshotVerifies ==
    (last.op = "snapshot" /\ last.ok) =>
        LET result == verify_single_snapshot(snaps, store, last.version) IN
        /\ ~result.err
        /\ result.missing_files = 0
        /\ result.corrupt_files = 0

\* the regular files below the base directory none of whose path components
\* is the storage folder name or an ignored name
Included ==
    {p \in DOMAIN BaseDir : \A i \in 1..Len(p) : p[i] # REPO_FOLDER /\ p[i] \notin ignore}

\* C6: the manifest of a new snapshot lists exactly the regular files of the
\* working tree whose path has no component equal to the storage folder name
\* or to an ignored name, and the snapshot directory holds exactly these
\* files next to its manifest file.
C6_SnapshotHoldsIncludedFiles ==
    [][SnapshotSucceeds =>
          /\ DOMAIN ManifestOf(snaps', store', last'.version) = Included
          /\ DOMAIN snaps'[last'.version] = Included \cup {PathManifest}]_vars

\* a snapshot of a tree with an ignored directory, an ignored file below a
\* kept directory and a nested storage folder left all three out
C6_Witness ==
    /\ last.op = "snapshot" /\ last.ok
    /\ {PathIgnoredDir, PathIgnoredLeaf, PathNestedRepo, PathSubB} \subseteq DOMAIN wt
    /\ "target" \in ignore
    /\ PathSubB \in DOMAIN snaps[last.version]
    /\ {PathIgnoredDir, PathIgnoredLeaf, PathNestedRepo} \cap DOMAIN snaps[last.version] = {}

\* C7 as stated: once a snapshot is created, no later command changes the
\* files it holds or its manifest; only prune may remove it, as a whole.
C7_SnapshotsAreImmutable ==
    [][\A v \in DOMAIN snaps :
          IF v \in DOMAIN snaps'
          THEN /\ snaps'[v] = snaps[v]
               /\ \A p \in DOMAIN snaps[v] : store'[snaps[v][p]] = store[snaps[v][p]]
          ELSE pc = "prune_prompt"]_vars

\* C10 as stated: when restore reports success, every path listed in the
\* target snapshot's manifest exists in the working tree with the content of
\* the snapshot's stored file; a restore that left a path out is not
\* reported as a success.
C10_RestoreIsComplete ==
    [][(pc = "restore_prompt" /\ last'.op = "restore" /\ last'.ok) =>
          \A p \in DOMAIN ManifestOf(snaps, store, pending.version) :
             /\ p \in DOMAIN snaps[pending.version]
             /\ p \in DOMAIN wt'
             /\ Bytes(wt'[p]) = store[snaps[pending.version][p]]]_vars

\* one file's size differs between the two manifests and nothing else does
OnlySizeChanged(manifest1, manifest2, p) ==
    /\ DOMAIN manifest1 = DOMAIN manifest2
    /\ p \in DOMAIN manifest1
    /\ manifest1[p].file_size # manifest2[p].file_size
    /\ \A q \in DOMAIN manifest1 \ {p} : manifest1[q] = manifest2[q]

\* C8: diff(A, B) reports as added the paths of B's manifest that A's lacks,
\* as removed the paths of A's manifest that B's lacks, and as updated the
\* paths in both whose size or modified string differ; when one file's size
\* is all that differs, that file is the only updated one and nothing is
\* added or removed.
C8_DiffClassifies ==
    last.op = "diff" =>
        LET A == pending.manifest1
            B == pending.manifest2
        IN /\ Range(last.added) = DOMAIN B \ DOMAIN A
           /\ Range(last.removed) = DOMAIN A \ DOMAIN B
           /\ Range(last.updated) =
                 {p \in DOMAIN A \cap DOMAIN B :
                     A[p].file_size # B[p].file_size \/ A[p].modified # B[p].modified}
           /\ Len(last.added) = Cardinality(Range(last.added))
           /\ Len(last.removed) = Cardinality(Range(last.removed))
           /\ Len(last.updated) = Cardinality(Range(last.updated))
           /\ \A p \in DiffPaths :
                 OnlySizeChanged(A, B, p) =>
                    last.updated = <<p>> /\ last.added = <<>> /\ last.removed = <<>>

\* the diff of two manifests with two files each, of which one changed its size
C8_Witness ==
    /\ last.op = "diff"
    /\ DOMAIN pending.manifest1 = DiffPaths
    /\ OnlySizeChanged(pending.manifest1, pending.manifest2, PathA)
    /\ last.updated = <<PathA>>

\* C9: diff is complementary: what diff(A, B) reports as added is what
\* diff(B, A) reports as removed, and the reverse, and both report the same
\* updated paths.
C9_DiffIsComplementary ==
    last.op = "diff" =>
        \A order1 \in Orders(DOMAIN pending.manifest2),
           order2 \in Orders(DOMAIN pending.manifest1) :
           LET reverse == diff(pending.manifest2, pending.manifest1, order1, order2) IN
           /\ Range(last.added) = Range(reverse.removed)
           /\ Range(last.removed) = Range(reverse.added)
           /\ Range(last.updated) = Range(reverse.updated)

\* a diff that reports an added and a removed path
C9_Witness ==
    /\ last.op = "diff"
    /\ last.added # <<>>
    /\ last.removed # <<>>

\* a step of a restore that has reached its confirmation prompt
RestoreAtPrompt == pc = "restore_prompt"

\* C11: restore only adds or overwrites: a working-tree file whose path is
\* not in the target manifest exists after the restore as it did before, with
\* the same content, no working-tree file is deleted, and every file that
\* appears is a path of the target manifest.
C11_RestoreOnlyAddsOrOverwrites ==
    [][RestoreAtPrompt =>
          LET manifest == DOMAIN ManifestOf(snaps, store, pending.version) IN
          /\ \A p \in DOMAIN wt : p \in DOMAIN wt'
          /\ \A p \in DOMAIN wt \ manifest : wt'[p] = wt[p]
          /\ \A p \in DOMAIN wt' \ DOMAIN wt : p \in manifest]_vars

\* a restore overwrote sub/b.txt and left a.txt, which the target snapshot
\* does not list, in the working tree
C11_Witness ==
    /\ last.op = "restore" /\ last.ok
    /\ last.version \in DOMAIN snaps
    /\ PathA \in DOMAIN wt
    /\ PathA \notin DOMAIN ManifestOf(snaps, store, last.version)
    /\ PathSubB \in DOMAIN ManifestOf(snaps, store, last.version)
    /\ wt[PathSubB].modified > 0
    /\ wt[PathA].modified < wt[PathSubB].modified

\* a step in which a restore that was asked for a backup ends, or goes on to
\* its prompt, without the backup snapshot in the head index
RestoreAfterFailedBackup ==
    /\ pc = "idle"
    /\ edits' = edits
    /\ \/ pc' = "restore_prompt" /\ pending'.backup /\ head' = head
       \/ pc' = "idle" /\ last'.op = "restore" /\ last'.backup_failed

\* C12: when restore is asked for a backup and the backup snapshot fails (the
\* version directory exists already, or the walk hits an I/O error), restore
\* returns an error without reaching its prompt and no working-tree file has
\* been created, overwritten or removed.
C12_FailedBackupAbortsRestore ==
    [][RestoreAfterFailedBackup =>
          /\ pc' = "idle"
          /\ last'.op = "restore"
          /\ ~last'.ok
          /\ wt' = wt]_vars

\* a restore ended with an error because its backup snapshot failed
C12_Witness ==
    /\ last.op = "restore" /\ ~last.ok /\ last.backup_failed
    /\ Len(head) >= 1
    /\ get_next_version(head, None) \in DOMAIN snaps
    /\ pc = "idle"

\* a step in which a restore reaches its confirmation prompt
ReachesRestorePrompt == pc = "idle" /\ pc' = "restore_prompt"

\* a step in which a restore is aborted at its confirmation prompt
AbortsAtRestorePrompt == pc = "restore_prompt" /\ pc' = "idle" /\ ~last'.ok

\* C13 as stated: when a restore, with or without backup, reaches its
\* confirmation prompt, and when it is aborted there, it has changed neither
\* the working tree nor the head index nor any snapshot directory.
C13_NoMutationBeforePrompt ==
    [][(ReachesRestorePrompt \/ AbortsAtRestorePrompt) =>
          /\ wt' = wt
          /\ head' = head
          /\ snaps' = snaps
          /\ store' = store]_vars

\* C13: when a restore reaches its confirmation prompt the working tree is
\* unchanged.  Without backup the head index and the snapshot directories are
\* unchanged as well; with backup the head index has one more entry, the
\* backup snapshot with its auto-generated message, and there is one more
\* snapshot directory, the backup's.  Aborting at the prompt changes nothing
\* more and does not undo the backup.
C13_PromptBeforeWorkingTreeChange ==
    [][/\ ReachesRestorePrompt =>
             /\ wt' = wt
             /\ IF pending'.backup
                THEN /\ Len(head') = Len(head) + 1
                     /\ SubSeq(head', 1, Len(head)) = head
                     /\ head'[Len(head')].message = Some("Auto-backup before restore")
                     /\ head'[Len(head')].version \notin DOMAIN snaps
                     /\ DOMAIN snaps' = DOMAIN snaps \cup {head'[Len(head')].version}
                ELSE head' = head /\ snaps' = snaps /\ store' = store
       /\ AbortsAtRestorePrompt =>
             wt' = wt /\ head' = head /\ snaps' = snaps /\ store' = store]_vars

\* a restore with backup was aborted at its prompt: the backup snapshot stays
C13_Witness ==
    /\ last.op = "restore" /\ ~last.ok /\ ~last.backup_failed
    /\ Len(head) = 2
    /\ head[2].message = Some("Auto-backup before restore")
    /\ head[2].version \in DOMAIN snaps
    /\ last.version = head[1].version

\* a step in which a confirmed prune deletes what it selected
PruneDeletes == pc = "prune_prompt" /\ pc' = "idle" /\ ~last'.declined

\* C14 as stated: after a confirmed live prune with keep_last = N smaller
\* than the number of snapshots and no older_than, the head index is the last
\* N entries of the head index before, in stored order and unchanged, and
\* the directory of every removed entry is gone.
C14_PruneKeepsLastStored ==
    [][(/\ PruneDeletes
        /\ IsSome(pending.keep_last)
        /\ ~IsSome(pending.older_than)
        /\ Unwrap(pending.keep_last) < Len(head)) =>
          LET N == Unwrap(pending.keep_last) IN
          /\ head' = SubSeq(head, Len(head) - N + 1, Len(head))
          /\ \A i \in 1..(Len(head) - N) : head[i].version \notin DOMAIN snaps']_vars

\* a step in which a prune call runs up to its prompt or to a return
PruneBeginStep ==
    /\ pc = "idle"
    /\ edits' = edits
    /\ created' = created
    /\ pc' = "prune_prompt" \/ last'.op = "prune"

\* the arguments and the selection of the prune call of a PruneBeginStep
PruneCallOfStep == IF pc' = "prune_prompt" THEN pending' ELSE last'

PruneSelectedOfStep == IF pc' = "prune_prompt" THEN pending'.to_delete ELSE last'.selected

\* <integer><unit> with unit one of d, day, days, h, hour, hours, m, min,
\* minutes, s, sec, seconds: the seconds it stands for
DocumentedDuration(duration_str) ==
    LET n == LeadingDigits(duration_str)
        unit == SubSeq(duration_str, n + 1, Len(duration_str))
    IN IF n >= 1 /\ UnitSeconds(unit) # 0
       THEN [ok |-> TRUE, seconds |-> DecimalValue(SubSeq(duration_str, 1, n)) * UnitSeconds(unit)]
       ELSE [ok |-> FALSE, seconds |-> 0]

\* C15 as stated: prune selects the union of its criteria: an entry is
\* selected iff it is not among the keep_last most recent entries (keep_last
\* given) or its timestamp is strictly earlier than now minus older_than
\* (older_than given); a keep_last of at least the number of snapshots
\* selects none and leaves the older_than of the same call in force.
C15_PruneSelectsUnion ==
    [][(/\ PruneBeginStep
        /\ PruneCallOfStep.ok
        /\ IsSome(PruneCallOfStep.older_than) =>
              DocumentedDuration(Unwrap(PruneCallOfStep.older_than)).ok) =>
          LET call == PruneCallOfStep
              ByCount(i) == IsSome(call.keep_last) /\ i <= Len(head) - Unwrap(call.keep_last)
              ByAge(i) ==
                  /\ IsSome(call.older_than)
                  /\ head[i].timestamp * TicksPerSecond
                        < now - DocumentedDuration(Unwrap(call.older_than)).seconds
                                  * TicksPerSecond
          IN Range(PruneSelectedOfStep) = {head[i] : i \in {j \in 1..Len(head) :
                                                              ByCount(j) \/ ByAge(j)}}]_vars

\* C16 as stated: an older_than made of a non-negative integer followed by
\* one of the unit names is accepted; every other older_than makes prune
\* fail and delete nothing.  Stated for the calls that get as far as the
\* older_than criterion: there are snapshots and keep_last, if given, is
\* smaller than their number.
C16_DurationGrammar ==
    [][(/\ PruneBeginStep
        /\ IsSome(PruneCallOfStep.older_than)
        /\ Len(head) > 0
        /\ IsSome(PruneCallOfStep.keep_last) => Unwrap(PruneCallOfStep.keep_last) < Len(head)) =>
          IF DocumentedDuration(Unwrap(PruneCallOfStep.older_than)).ok
          THEN PruneCallOfStep.ok
          ELSE /\ pc' = "idle"
               /\ ~last'.ok
               /\ head' = head
               /\ snaps' = snaps]_vars

\* a step of a prune that must not change the repository: a dry run, a call
\* without criteria, a live prune declined at its prompt
PruneWithoutEffect ==
    \/ PruneBeginStep /\ pc' = "idle" /\ last'.dry_run
    \/ PruneBeginStep /\ pc' = "idle"
          /\ ~IsSome(last'.keep_last) /\ ~IsSome(last'.older_than)
    \/ pc = "prune_prompt" /\ pc' = "idle" /\ last'.declined

\* C17: a prune with dry_run, a prune with neither keep_last nor older_than,
\* and a live prune declined at its prompt each leave the head index file,
\* content and order of the entries, and every snapshot directory unchanged.
C17_PruneWithoutEffect ==
    [][PruneWithoutEffect => head' = head /\ snaps' = snaps /\ store' = store]_vars

\* a live prune that had selected an entry was declined, and the head, whose
\* stored order is not the order of its timestamps, is as it was stored
C17_Witness ==
    /\ last.op = "prune" /\ last.declined
    /\ Len(last.selected) >= 1
    /\ Len(head) >= 2
    /\ head[1].timestamp > head[2].timestamp
    /\ DOMAIN snaps = Versions(head)

\* the records of the manifest stored for `version`
ManifestRecords(version) == store[snaps[version][PathManifest]].recs

\* the result that verify reports for one snapshot agrees with the snapshot
\* directory: it is an error exactly when the manifest cannot be read, and
\* otherwise counts the records without a stored file and the records whose
\* stored file has another size
ResultAgrees(result) ==
    LET version == result.version
        readable == /\ version \in DOMAIN snaps
                    /\ PathManifest \in DOMAIN snaps[version]
                    /\ store[snaps[version][PathManifest]].data = "json"
    IN IF ~readable THEN result.err /\ ~result.success
       ELSE /\ ~result.err
            /\ result.missing_files =
                  Cardinality({r \in ManifestRecords(version) :
                                  r.relative_path \notin DOMAIN snaps[version]})
            /\ result.corrupt_files =
                  Cardinality({r \in ManifestRecords(version) :
                                  /\ r.relative_path \in DOMAIN snaps[version]
                                  /\ store[snaps[version][r.relative_path]].size # r.file_size})
            /\ result.success <=> (result.missing_files = 0 /\ result.corrupt_files = 0)

\* what a verify that found its targets has reported
VerifyReportAgrees ==
    (last.op = "verify" /\ last.found) =>
        /\ \A i \in 1..Len(last.results) : ResultAgrees(last.results[i])
        /\ last.ok <=> \A i \in 1..Len(last.results) : last.results[i].success

\* C18: for each targeted snapshot verify's missing count is the number of
\* manifest records without a stored file in the snapshot directory and its
\* corrupt count the number of records whose stored file has a size other
\* than the recorded one; the snapshot passes iff both are zero; verify
\* fails iff a targeted snapshot does not pass; verify changes no state.
C18_VerifyCounts ==
    [][(pc = "idle" /\ last'.op = "verify") =>
          /\ VerifyReportAgrees'
          /\ repo' = repo /\ ignore' = ignore /\ wt' = wt
          /\ head' = head /\ snaps' = snaps /\ store' = store]_vars

\* verify of all snapshots failed: one snapshot passes, the other has a
\* record without stored file and a record whose stored file has another size
C18_Witness ==
    /\ last.op = "verify" /\ last.found /\ ~last.ok
    /\ Len(last.results) = 2
    /\ last.results[1].success
    /\ Cardinality(ManifestRecords(last.results[1].version)) = 2
    /\ ~last.results[2].err
    /\ last.results[2].missing_files = 1
    /\ last.results[2].corrupt_files = 1

\* the id names the latest snapshot: it is absent or "latest" in any case
NamesLatest(snapshot_id) ==
    ~IsSome(snapshot_id) \/ ToLowercase(Unwrap(snapshot_id)) = Latest

\* the result that the rule of C19 gives for an id and the head
ResolvesTo(snapshot_id, result) ==
    IF Len(head) = 0 THEN ~result.ok
    ELSE IF NamesLatest(snapshot_id)
    THEN result.ok /\ result.version = head[Len(head)].version
    ELSE IF \E i \in 1..Len(head) : head[i].version = Unwrap(snapshot_id)
    THEN result.ok /\ result.version = Unwrap(snapshot_id)
    ELSE IF \E i \in 1..Len(head) : StartsWith(head[i].version, Unwrap(snapshot_id))
    THEN /\ result.ok
         /\ \E i \in 1..Len(head) :
               /\ result.version = head[i].version
               /\ StartsWith(head[i].version, Unwrap(snapshot_id))
               /\ \A j \in 1..(i - 1) : ~StartsWith(head[j].version, Unwrap(snapshot_id))
    ELSE ~result.ok

\* C19: resolve_id returns the last entry's version when the id is absent or
\* "latest" in any case; otherwise the version equal to the id if there is
\* one, even when an earlier entry has the id as a prefix; otherwise the
\* first entry in stored order whose version starts with the id; NotFound
\* when the head is empty or nothing matches. Restore resolves its target
\* the same way.
C19_ResolveId ==
    last.op = "resolve" =>
        /\ ResolvesTo(last.snapshot_id, last.resolved)
        /\ last.restore = last.resolved

\* an id equal to the version of the last entry and a prefix of the first
\* entry's version has been resolved to the last entry
C19_Witness ==
    /\ last.op = "resolve"
    /\ Len(head) = 2
    /\ IsSome(last.snapshot_id)
    /\ Unwrap(last.snapshot_id) = head[2].version
    /\ head[1].version # head[2].version
    /\ StartsWith(head[1].version, Unwrap(last.snapshot_id))
    /\ last.resolved = Found(head[2].version)
    /\ last.restore = Found(head[2].version)

\* the four components of the head's last version
LastParts == Split(TrimStartMatches(head[Len(head)].version, "v"), ".")

\* the digits of D + 1 for the digits D, of any size
NextBuild(build) == Increment(StripZeros(build))

\* C20: with no explicit version, next_version returns v1.0.0.0 for an empty
\* head and otherwise the last entry's version with the build component
\* increased by 1 and the first three components unchanged, whatever the
\* other entries of the head are (stated for the last versions whose build
\* component is a number).
C20_NextVersionIncrementsBuild ==
    (last.op = "next_version" /\ ~IsSome(last.version)) =>
        IF Len(head) = 0 THEN ~last.panic /\ last.result = V1000
        ELSE (\A i \in 1..Len(LastParts[4]) : LastParts[4][i] \in Digits) =>
                /\ ~last.panic
                /\ last.result = FormatVersion(LastParts[1], LastParts[2], LastParts[3],
                                               NextBuild(LastParts[4]))

\* a non-empty run of decimal digits
IsNumber(s) == Len(s) > 0 /\ \A i \in 1..Len(s) : s[i] \in Digits

\* the dot-separated components of a version, written with or without "v"
Components(v) == Split(IF Len(v) > 0 /\ v[1] = "v" THEN Tail(v) ELSE v, ".")

AllNumbers(parts) == \A i \in 1..Len(parts) : IsNumber(parts[i])

\* vA.B.C.D with four numbers
IsFullForm(v) ==
    Len(v) > 0 /\ v[1] = "v" /\ Len(Components(v)) = 4 /\ AllNumbers(Components(v))

\* the components, zero-filled to four
ZeroFilled(parts) ==
    FormatVersion(parts[1],
                  IF Len(parts) >= 2 THEN parts[2] ELSE <<"0">>,
                  IF Len(parts) >= 3 THEN parts[3] ELSE <<"0">>,
                  IF Len(parts) >= 4 THEN parts[4] ELSE <<"0">>)

InHead(v) == \E i \in 1..Len(head) : head[i].version = v

\* C21: an explicit full form vA.B.C.D present in the head yields
\* vA.B.C.(D+1); a full form not present is used as it is; a bare number N
\* yields vN.0.0.0; a partial dotted form of 1 to 3 numbers is zero-filled.
C21_ExplicitVersion ==
    (last.op = "next_version" /\ IsSome(last.version)) =>
        LET v == Unwrap(last.version)
            parts == Components(v)
        IN /\ (IsFullForm(v) /\ InHead(v)) =>
                 /\ ~last.panic
                 /\ last.result = FormatVersion(parts[1], parts[2], parts[3],
                                                NextBuild(parts[4]))
           /\ (IsFullForm(v) /\ ~InHead(v)) => last.result = v
           /\ IsNumber(v) => last.result = FormatVersion(v, <<"0">>, <<"0">>, <<"0">>)
           /\ (Len(parts) \in 1..3 /\ AllNumbers(parts)) => last.result = ZeroFilled(parts)

\* an explicit version that is malformed: a component that is no number, or
\* not 1 to 4 components
Malformed(v) == ~(Len(Components(v)) \in 1..4 /\ AllNumbers(Components(v)))

\* C23: next_version falls back to v1.0.0.0 exactly for a malformed explicit
\* version ("abc", "1.x", five components) and, without explicit version,
\* for a head whose last version is not four dot-separated integers; a
\* well-formed input gives v1.0.0.0 only when that is its own value.
C23_FallbackCases ==
    last.op = "next_version" =>
        IF IsSome(last.version)
        THEN IF Malformed(Unwrap(last.version))
             THEN ~last.panic /\ last.result = V1000
             ELSE last.result = V1000 => ZeroFilled(Components(Unwrap(last.version))) = V1000
        ELSE Len(head) > 0 =>
                IF Len(LastParts) = 4 /\ AllNumbers(LastParts)
                THEN last.result # V1000
                ELSE ~last.panic /\ last.result = V1000

\* the version whose build number is incremented, <<>> if none is: without
\* explicit version the last one of the head, else the explicit full form
\* that the head already has
Incremented ==
    IF IsSome(last.version)
    THEN IF IsFullForm(Unwrap(last.version)) /\ InHead(Unwrap(last.version))
         THEN Unwrap(last.version) ELSE <<>>
    ELSE IF Len(head) > 0 /\ IsFullForm(head[Len(head)].version)
         THEN head[Len(head)].version ELSE <<>>

\* C24: the build increment is unbounded: for every build number D of
\* vA.B.C.D, 2^32 - 1 and larger ones included, the next version is
\* vA.B.C.(D+1), without wrap-around, reset, carry into C or failure.
C24_BuildIncrementUnbounded ==
    (last.op = "next_version" /\ Incremented # <<>>) =>
        /\ ~last.panic
        /\ last.result = FormatVersion(Components(Incremented)[1], Components(Incremented)[2],
                                       Components(Incremented)[3],
                                       NextBuild(Components(Incremented)[4]))

\* the position in the head of the snapshot that the id names
NamedIndex(snapshot_id) ==
    CHOOSE i \in 1..Len(head) :
        head[i].version = resolve_snapshot_id(snapshot_id, head).version

TagsOf(entry) == MetadataOrDefault(entry).tags

Occurrences(tags, tag) == Cardinality({i \in 1..Len(tags) : tags[i] = tag})

\* the step is a tag command on a snapshot that its id names
TagStep == last'.op = "tag" /\ resolve_snapshot_id(last'.snapshot_id, head).ok

\* the step removes the tags that the command before it has added to the
\* same snapshot, none of which the snapshot had
RemovesJustAdded ==
    /\ last.op = "tag" /\ last.ok /\ IsSome(last.add)
    /\ last'.snapshot_id = last.snapshot_id
    /\ last'.remove = last.add
    /\ \A t \in Range(Unwrap(last.add)) :
          ~Contains(TagsOf(last.before[NamedIndex(last.snapshot_id)]), t)

\* C22: the tags of a snapshot are a set edited in place: an added tag is in
\* that snapshot's tags exactly once, and adding a tag it has changes
\* nothing; removing a tag that was just added restores the tag list from
\* before; a tag edit changes no other field of the entry, no other entry
\* and no entry order.
C22_TagsEditedInPlace ==
    [][TagStep =>
          LET idx == NamedIndex(last'.snapshot_id) IN
          /\ Len(head') = Len(head)
          /\ \A j \in 1..Len(head) : j # idx => head'[j] = head[j]
          /\ head'[idx].version = head[idx].version
          /\ head'[idx].timestamp = head[idx].timestamp
          /\ head'[idx].message = head[idx].message
          /\ MetadataOrDefault(head'[idx]).custom = MetadataOrDefault(head[idx]).custom
          /\ IsSome(last'.add) =>
                /\ \A t \in Range(Unwrap(last'.add)) :
                      Occurrences(TagsOf(head'[idx]), t) = 1
                /\ (\A t \in Range(Unwrap(last'.add)) : Contains(TagsOf(head[idx]), t))
                      => head' = head
          /\ RemovesJustAdded =>
                TagsOf(head'[idx]) = TagsOf(last.before[idx])]_vars

\* C28: verify, tag, meta and info act on exactly the snapshot whose version
\* resolve_id returns for the id and the head, also when an earlier entry's
\* version starts with the version of a later one: an exact match is never
\* displaced by an earlier entry that starts with the id.
C28_CommandsActOnResolvedSnapshot ==
    LET resolved == resolve_snapshot_id(last.snapshot_id, head) IN
    /\ last.op \in {"tag", "meta", "info"} =>
          last.target = (IF resolved.ok THEN resolved.version ELSE <<>>)
    /\ (last.op = "verify" /\ IsSome(last.snapshot_id)) =>
          IF resolved.ok
          THEN /\ last.found
               /\ Len(last.results) = 1
               /\ last.results[1].version = resolved.version
          ELSE Len(last.results) = 0

\* a step of the snapshot command in which the file system refused the hard
\* links that the walk attempted
SnapshotWithFailedLinks ==
    /\ pc = "idle"
    /\ created' = created + 1
    /\ last'.op = "snapshot"
    /\ last'.link_fails

\* C25: when the hard link of an unchanged file fails, the snapshot does not
\* fail because of it: the file is stored as a full copy of the working-tree
\* file, and the manifest and the head-index entry are the ones that the
\* snapshot produces when the link succeeds.
C25_FailedLinkFallsBackToCopy ==
    [][SnapshotWithFailedLinks =>
          LET linked == create_snapshot(last'.message, last'.tag, FALSE, FALSE)
              new == last'.version
          IN /\ last'.ok /\ linked.ok
             /\ head' = linked.head
             /\ store'[snaps'[new][PathManifest]].recs
                   = linked.store[linked.snaps[new][PathManifest]].recs
             /\ \A p \in LinkCandidates :
                   /\ store'[snaps'[new][p]] = Bytes(BaseDir[p])
                   /\ snaps'[new][p] \notin Inodes(snaps)]_vars

\* C26: for a pair of manifests, diff lists the paths of the added, the
\* removed and the updated set in the same order on every run: whatever
\* order another run iterates the two maps in, it reports the lists that
\* this run has reported.
C26_DiffOrderIsStable ==
    last.op = "diff" =>
        \A order1 \in Orders(DOMAIN pending.manifest1),
           order2 \in Orders(DOMAIN pending.manifest2) :
           LET rerun == diff(pending.manifest1, pending.manifest2, order1, order2) IN
           /\ rerun.added = last.added
           /\ rerun.removed = last.removed
           /\ rerun.updated = last.updated

\* the head index holds the change of the invocation: the entry of its
\* snapshot, or its tag on the snapshot V1000
HasChange(proc) ==
    IF proc.cmd.kind = "snapshot"
    THEN \E i \in 1..Len(head) : head[i].version = proc.version
    ELSE \E i \in 1..Len(head) :
            /\ head[i].version = V1000
            /\ \A t \in Range(proc.cmd.add) : Contains(TagsOf(head[i]), t)

BothSaved == pending.op = "concurrent" /\ \A p \in Procs : pending.procs[p].pc = "done"

\* C27: invocations are not synchronized and the last writer wins: when two
\* invocations have both saved the head index, it holds the change of the
\* one that saved last, and it lacks the change of the other one exactly if
\* the last one had loaded the head index before the other one saved it.
C27_LastWriterWins ==
    BothSaved =>
        \A w \in Procs : \A o \in Procs \ {w} :
            pending.procs[w].saved_after = 1 =>
                /\ HasChange(pending.procs[w])
                /\ ~HasChange(pending.procs[o]) <=> pending.procs[w].seen = 0

\* a snapshot and a tag edit have both finished without error, and the
\* directory of the snapshot exists while the head index lacks its version
C27_Witness ==
    /\ BothSaved
    /\ \E p \in Procs : \E q \in Procs \ {p} :
          /\ pending.procs[p].cmd.kind = "snapshot"
          /\ pending.procs[q].cmd.kind = "tag"
          /\ pending.procs[p].version \in DOMAIN snaps
          /\ pending.procs[p].version \notin Versions(head)
          /\ HasChange(pending.procs[q])

\* verify finds nothing wrong with the snapshot
Passes(sn, st, version) ==
    LET result == verify_single_snapshot(sn, st, version) IN
    ~result.err /\ result.missing_files = 0 /\ result.corrupt_files = 0

\* C29: a confirmed prune does not damage a surviving snapshot: every
\* snapshot that is in the head index after the prune and passed verify
\* before it still passes, also when its files are hard links to files of a
\* pruned snapshot.
C29_PruneKeepsSurvivorsIntact ==
    [][(pc = "prune_prompt" /\ last'.op = "prune" /\ ~last'.declined) =>
          \A i \in 1..Len(head') :
             Passes(snaps, store, head'[i].version)
                => Passes(snaps', store', head'[i].version)]_vars

\* after a prune that deleted a snapshot, a surviving snapshot passes verify
\* and holds a file that was stored by an earlier snapshot which is gone
C29_Witness ==
    /\ last.op = "prune" /\ ~last.declined /\ Len(last.deleted) >= 1
    /\ \E i \in 1..Len(head) :
          LET dir == snaps[head[i].version] IN
          /\ Passes(snaps, store, head[i].version)
          /\ \E p \in DOMAIN dir \ {PathManifest} :
                /\ dir[p].gen < dir[PathManifest].gen
                /\ \A v \in DOMAIN snaps \ {head[i].version} :
                      \A q \in DOMAIN snaps[v] : snaps[v][q] # dir[p]

\* C30: for every head index that snapshots, with or without explicit
\* versions, and prunes leave, the version computed for a snapshot without
\* explicit version is not in the head index, so the snapshot does not fail
\* because its directory exists.
C30_AutomaticVersionIsFresh ==
    (last.op = "next_version" /\ ~IsSome(last.version) /\ ~last.panic) =>
        ~InHead(last.result)

====
